---- MODULE Spec2Model ----
(***************************************************************************)
(* A model of feather-testing's Session (src/src/session.ts): the thenable *)
(* action queue, its drain (executeSteps), the StepError report, and the   *)
(* scoping step (within) that builds and drains a nested Session.          *)
(*                                                                         *)
(* JavaScript runs every synchronous stretch of code to completion, so one *)
(* action of the model is one such stretch: a fluent call, a then() call   *)
(* up to the first await, or the continuation that runs when an awaited    *)
(* promise settles.                                                        *)
(*                                                                         *)
(* The two back ends (src/src/rtl/driver.ts, src/src/playwright/driver.ts) *)
(* are modelled by the operations the form, checkbox and path tests call,  *)
(* acting on a page: a document with two controls and a location.          *)
(***************************************************************************)
EXTENDS Integers, Sequences, FiniteSets, TLC

\* ------------------------------------------------------------------ bounds
\* Fluent calls the test code issues on the root Session.
MaxCalls == 3
\* then() calls (awaits) the test code issues on the root Session.
MaxTriggers == 2

\* ------------------------------------------------------------------ inputs
\* The fluent surface of Session (session.ts 46-154).
Methods ==
    {"visit", "click", "clickLink", "clickButton", "fillIn", "selectOption",
     "check", "uncheck", "choose", "submit", "assertText", "refuteText",
     "assertHas", "refuteHas", "assertPath", "refutePath", "within", "debug"}

\* The absent callback of a step that is not a within step.
NoFn == [outer |-> <<>>, scoped |-> <<>>, ret |-> "none"]

\* One fluent call as the caller writes it: the method, its literal
\* arguments and, for within, the callback.
CallOf(m, args, fn) == [m |-> m, args |-> args, fn |-> fn]

\* The options of assertPath: opts.queryParams, absent or an object, whose
\* properties are <<key, value>> pairs in the order the literal lists them.
AssertPathOptions(some, pairs) ==
    [queryParams |-> [some |-> some, pairs |-> pairs]]

\* assertPath(path), called without options.
NoOpts == AssertPathOptions(FALSE, <<>>)

\* The arguments a test passes to each method (one literal per parameter).
\* A path is the sequence of its segments: <<"p">> is "/p".
ArgsOf(m) ==
    CASE m \in {"visit", "refutePath"} -> {<< <<"p">> >>}
      [] m = "assertPath" -> {<< <<"p">>, NoOpts >>}
      [] m \in {"click", "clickLink", "clickButton", "check", "uncheck",
                "choose", "assertText", "refuteText"} -> {<<"t">>}
      [] m \in {"fillIn", "selectOption"} -> {<<"l", "v">>}
      [] m \in {"assertHas", "refuteHas"} -> {<<"#s", "">>, <<"#s", "t">>}
      [] m = "within" -> {<<"#s">>}
      [] OTHER -> {<<>>}

\* The callbacks fn a test passes to within.  fn receives the scoped Session;
\* it may queue calls on the enclosing Session it closes over (outer), builds
\* a chain on the scoped Session (scoped), and returns the end of one of the
\* two chains (ret).
\*   (s) => s
FnSelf == [outer |-> <<>>, scoped |-> <<>>, ret |-> "scoped"]
\*   (s) => s.click("t")
FnChain ==
    [outer |-> <<>>, scoped |-> <<CallOf("click", <<"t">>, NoFn)>>,
     ret |-> "scoped"]
\*   (s) => session.click("t"), session being the enclosing Session
FnOuter ==
    [outer |-> <<CallOf("click", <<"t">>, NoFn)>>, scoped |-> <<>>,
     ret |-> "outer"]

Callbacks == {FnSelf, FnChain, FnOuter}

\* Every call of method m a test can write.
CallsOf(m) ==
    {CallOf(m, a, f) : a \in ArgsOf(m),
                       f \in IF m = "within" THEN Callbacks ELSE {NoFn}}

\* ------------------------------------------------------------------- state
VARIABLES
    sessions,   \* heap of Session objects: [steps, stepIndex, driver, made]
    drains,     \* executeSteps() activations, in the order they were started
    errors,     \* heap of error objects, in the order they were constructed
    returned,   \* the value the last fluent call of the test code returned
    issued,     \* history: per Session, the calls issued on it, in order
    triggers,   \* history: number of then() calls the test code made
    page        \* what the back end drives: the document and its location

vars == <<sessions, drains, errors, returned, issued, triggers, page>>

\* The root Session createSession() hands to the test.
Root == 1

\* new Session(driver): an empty queue and index 0 (session.ts 10-13).
\* made counts the QueuedStep objects the Session has created; it gives each
\* step object its identity (ref), which === compares.
NewSession(driver) ==
    [steps |-> <<>>, stepIndex |-> 0, driver |-> driver, made |-> 0]

\* The form a driver has recorded (lastFormElement, lastFormLocator).  The
\* RTL driver keeps the form element, the Playwright driver a lazy locator
\* "the form that has the control labelled has".
NoForm == [some |-> FALSE, form |-> 0, has |-> ""]

\* new RTLDriver(user, container): scoped to container, no form recorded.
RTLDriver(scope) == [kind |-> "rtl", scope |-> scope, lastForm |-> NoForm]

\* new PlaywrightDriver(page, scope): scoped to scope, no form recorded.
PlaywrightDriver(scope) ==
    [kind |-> "playwright", scope |-> scope, lastForm |-> NoForm]

\* The driver of the root Session: scoped to the whole page.
RootDriver == RTLDriver(<<>>)

\* ------------------------------------------------------------- the queue
\* The deferred action of a step: the closure () => this.driver.op(args),
\* or for within the closure over selector and fn.
Thunk(self, op, args, fn) == [self |-> self, op |-> op, args |-> args, fn |-> fn]

\* The object literal {name, action, index: this.stepIndex} of enqueue.
Step(ss, self, name, action) ==
    [name |-> name, action |-> action, index |-> ss[self].stepIndex,
     ref |-> <<self, ss[self].made>>]

\* enqueue with a plausible bug: builder style, a new Session is returned
\* instead of this.
enqueue_ReturnsCopy(ss, self, name, action) ==
    [heap |-> Append([ss EXCEPT ![self].steps =
                          Append(@, Step(ss, self, name, action)),
                                ![self].stepIndex = @ + 1,
                                ![self].made = @ + 1],
                     NewSession(ss[self].driver)),
     ret |-> Len(ss) + 1]

\* enqueue with a plausible bug: the index is not incremented.
enqueue_NoIncrement(ss, self, name, action) ==
    [heap |-> [ss EXCEPT ![self].steps =
                   Append(@, Step(ss, self, name, action)),
                         ![self].made = @ + 1],
     ret |-> self]

\* Session.enqueue: push {name, action, index: stepIndex++}, return this.
\* ss is the heap of Sessions; the result is the heap after the call and
\* the returned reference.
enqueue(ss, self, name, action) ==
    [heap |-> [ss EXCEPT ![self].steps =
                   Append(@, Step(ss, self, name, action)),
                         ![self].stepIndex = @ + 1,
                         ![self].made = @ + 1],
     ret |-> self]

\* ------------------------------------------------------- the fluent surface
visit(ss, self, path) ==
    enqueue(ss, self, <<"visit", path>>, Thunk(self, "visit", <<path>>, NoFn))

click(ss, self, text) ==
    enqueue(ss, self, <<"click", text>>, Thunk(self, "click", <<text>>, NoFn))

clickLink(ss, self, text) ==
    enqueue(ss, self, <<"clickLink", text>>,
            Thunk(self, "clickLink", <<text>>, NoFn))

clickButton(ss, self, text) ==
    enqueue(ss, self, <<"clickButton", text>>,
            Thunk(self, "clickButton", <<text>>, NoFn))

fillIn(ss, self, label, value) ==
    enqueue(ss, self, <<"fillIn", label, value>>,
            Thunk(self, "fillIn", <<label, value>>, NoFn))

selectOption(ss, self, label, option) ==
    enqueue(ss, self, <<"selectOption", label, option>>,
            Thunk(self, "selectOption", <<label, option>>, NoFn))

check(ss, self, label) ==
    enqueue(ss, self, <<"check", label>>, Thunk(self, "check", <<label>>, NoFn))

uncheck(ss, self, label) ==
    enqueue(ss, self, <<"uncheck", label>>,
            Thunk(self, "uncheck", <<label>>, NoFn))

choose(ss, self, label) ==
    enqueue(ss, self, <<"choose", label>>,
            Thunk(self, "choose", <<label>>, NoFn))

submit(ss, self) ==
    enqueue(ss, self, <<"submit">>, Thunk(self, "submit", <<>>, NoFn))

assertText(ss, self, text) ==
    enqueue(ss, self, <<"assertText", text>>,
            Thunk(self, "assertText", <<text>>, NoFn))

refuteText(ss, self, text) ==
    enqueue(ss, self, <<"refuteText", text>>,
            Thunk(self, "refuteText", <<text>>, NoFn))

\* The descriptor shows opts.text only when it is truthy.
assertHas(ss, self, selector, opts) ==
    enqueue(ss, self,
            IF opts.text # "" THEN <<"assertHas", selector, "text:", opts.text>>
                              ELSE <<"assertHas", selector>>,
            Thunk(self, "assertHas", <<selector, opts.text>>, NoFn))

refuteHas(ss, self, selector, opts) ==
    enqueue(ss, self,
            IF opts.text # "" THEN <<"refuteHas", selector, "text:", opts.text>>
                              ELSE <<"refuteHas", selector>>,
            Thunk(self, "refuteHas", <<selector, opts.text>>, NoFn))

\* The descriptor shows the path only; the action passes opts on.
assertPath(ss, self, path, opts) ==
    enqueue(ss, self, <<"assertPath", path>>,
            Thunk(self, "assertPath", <<path, opts>>, NoFn))

refutePath(ss, self, path) ==
    enqueue(ss, self, <<"refutePath", path>>,
            Thunk(self, "refutePath", <<path>>, NoFn))

within(ss, self, selector, fn) ==
    enqueue(ss, self, <<"within", selector>>,
            Thunk(self, "within", <<selector>>, fn))

debug(ss, self) ==
    enqueue(ss, self, <<"debug">>, Thunk(self, "debug", <<>>, NoFn))

\* The call c made on Session self: the method c names, with c's arguments.
Invoke(ss, self, c) ==
    CASE c.m = "visit" -> visit(ss, self, c.args[1])
      [] c.m = "click" -> click(ss, self, c.args[1])
      [] c.m = "clickLink" -> clickLink(ss, self, c.args[1])
      [] c.m = "clickButton" -> clickButton(ss, self, c.args[1])
      [] c.m = "fillIn" -> fillIn(ss, self, c.args[1], c.args[2])
      [] c.m = "selectOption" -> selectOption(ss, self, c.args[1], c.args[2])
      [] c.m = "check" -> check(ss, self, c.args[1])
      [] c.m = "uncheck" -> uncheck(ss, self, c.args[1])
      [] c.m = "choose" -> choose(ss, self, c.args[1])
      [] c.m = "submit" -> submit(ss, self)
      [] c.m = "assertText" -> assertText(ss, self, c.args[1])
      [] c.m = "refuteText" -> refuteText(ss, self, c.args[1])
      [] c.m = "assertHas" -> assertHas(ss, self, c.args[1], [text |-> c.args[2]])
      [] c.m = "refuteHas" -> refuteHas(ss, self, c.args[1], [text |-> c.args[2]])
      [] c.m = "assertPath" -> assertPath(ss, self, c.args[1], c.args[2])
      [] c.m = "refutePath" -> refutePath(ss, self, c.args[1])
      [] c.m = "within" -> within(ss, self, c.args[1], c.fn)
      [] c.m = "debug" -> debug(ss, self)

\* A chain x.c1(..).c2(..)...: each call is made on what the one before it
\* returned.  The result is the heap after the chain and the chain's value.
RECURSIVE Chain(_, _, _)
Chain(ss, self, calls) ==
    IF calls = <<>> THEN [heap |-> ss, ret |-> self]
    ELSE LET r == Invoke(ss, self, Head(calls))
         IN  Chain(r.heap, r.ret, Tail(calls))

\* ------------------------------------------------------------ StepError
\* new Error(text): an error a driver operation throws.
DriverError(text) == [type |-> "Error", message |-> [text |-> text], cause |-> 0]

\* StepLine with a plausible bug: <= where the status compares with <.
StepLine_OffByOne(step, failedStep) ==
    [prefix |-> IF step.ref = failedStep.ref THEN ">>> " ELSE "    ",
     status |-> IF step.index <= failedStep.index THEN "[ok]"
                ELSE IF step.index = failedStep.index THEN "[FAILED]"
                ELSE "[skipped]",
     name |-> step.name]

\* StepLine with a plausible bug: the marker is put on every line that is
\* not [ok].
StepLine_MarksSkipped(step, failedStep) ==
    [prefix |-> IF step.index >= failedStep.index THEN ">>> " ELSE "    ",
     status |-> IF step.index < failedStep.index THEN "[ok]"
                ELSE IF step.index = failedStep.index THEN "[FAILED]"
                ELSE "[skipped]",
     name |-> step.name]

\* One line of the chain listing: the marker, the status derived from the
\* indices, the descriptor (session.ts 169-178).
StepLine(step, failedStep) ==
    [prefix |-> IF step.ref = failedStep.ref THEN ">>> " ELSE "    ",
     status |-> IF step.index < failedStep.index THEN "[ok]"
                ELSE IF step.index = failedStep.index THEN "[FAILED]"
                ELSE "[skipped]",
     name |-> step.name]

\* StepError with a plausible bug: the cause goes into the text only, the
\* options argument {cause} of super() is left out.
StepError_TextOnly(errs, failedStep, allSteps, cause) ==
    [type |-> "StepError",
     message |-> [position |-> failedStep.index + 1,
                  total |-> Len(allSteps),
                  failedAt |-> failedStep.name,
                  cause |-> errs[cause].message,
                  chain |-> [i \in 1..Len(allSteps) |->
                                 StepLine(allSteps[i], failedStep)]],
     cause |-> 0]

\* StepError with a plausible bug: a cause that is itself a StepError is
\* unwrapped, so that the innermost error becomes the cause.
StepError_Unwraps(errs, failedStep, allSteps, cause) ==
    [type |-> "StepError",
     message |-> [position |-> failedStep.index + 1,
                  total |-> Len(allSteps),
                  failedAt |-> failedStep.name,
                  cause |-> errs[cause].message,
                  chain |-> [i \in 1..Len(allSteps) |->
                                 StepLine(allSteps[i], failedStep)]],
     cause |-> IF errs[cause].type = "StepError" THEN errs[cause].cause
               ELSE cause]

\* new StepError(failedStep, allSteps, cause).  errs is the heap of errors
\* and cause a reference into it; the message keeps the parts of the text
\* apart: "Step <position> of <total> failed", "Failed at:", "Cause:" and
\* the chain listing.
StepError(errs, failedStep, allSteps, cause) ==
    [type |-> "StepError",
     message |-> [position |-> failedStep.index + 1,
                  total |-> Len(allSteps),
                  failedAt |-> failedStep.name,
                  cause |-> errs[cause].message,
                  chain |-> [i \in 1..Len(allSteps) |->
                                 StepLine(allSteps[i], failedStep)]],
     cause |-> cause]

\* ------------------------------------------------------------- the page
\* Text is a sequence of tokens.  A path is the sequence of its segments,
\* <<"a", "b">> for "/a/b"; a query is a sequence of <<key, value>> pairs in
\* the order in which the URL or the object literal lists them.
Origin == "http://host"

\* The location of the page: its path and its query; mark says that the URL
\* has a "?" (a URL may end in a bare "?").
Location(path, mark, query) == [path |-> path, mark |-> mark, query |-> query]

\* A control of the document: whether it is rendered, whether its name is a
\* label or a placeholder, its type, the form that encloses it (0: none), the
\* elements matching a within selector that enclose it, and its state.
Control(present, by, type, form) ==
    [present |-> present, by |-> by, type |-> type, form |-> form,
     within |-> <<>>, checked |-> FALSE, value |-> ""]

\* A form element.  button: it holds a control that matches
\* button[type="submit"], input[type="submit"]; named: the accessible name of
\* that control matches /submit/i; plain: it holds a button that is not of
\* type submit whose accessible name matches /submit/i.
Form(button, named, plain) ==
    [button |-> button, named |-> named, plain |-> plain]

\* The forms of the document: form 1 holds a submit control, form 2 none.
Forms == <<Form(TRUE, FALSE, FALSE), Form(FALSE, FALSE, FALSE)>>

\* The element a within selector names: whether the document holds it, and
\* the elements named by selectors that enclose it, outermost first.
Region(present, path) == [present |-> present, within |-> path]

\* A document without the elements "#s" and "#c".
NoRegions == [sel \in {"#s", "#c"} |-> Region(FALSE, <<>>)]

\* A document with the text input "l" and the checkbox "t".  submitted is
\* the history of form submissions; screenshot says whether page.screenshot()
\* resolves (the page is open and the file can be written).
Page(location, l, t) ==
    [location |-> location, forms |-> Forms, fields |-> [l |-> l, t |-> t],
     submitted |-> <<>>, screenshot |-> TRUE, regions |-> NoRegions]

\* The page before anything is rendered or visited.
BlankPage ==
    Page(Location(<<>>, FALSE, <<>>),
         Control(FALSE, "label", "text", 0),
         Control(FALSE, "label", "checkbox", 0))

\* --------------------------------------------------------- the back ends
\* What an operation of a driver does: whether its promise resolves, the
\* error it rejects with, and the driver and the page after it.
Resolved(drv, pg) ==
    [ok |-> TRUE, error |-> DriverError(<<"none">>), driver |-> drv, page |-> pg]

Threw(drv, pg, text) ==
    [ok |-> FALSE, error |-> DriverError(text), driver |-> drv, page |-> pg]

IsPrefix(s, t) == Len(s) <= Len(t) /\ SubSeq(t, 1, Len(s)) = s

\* A query of the driver's container for the control named name the way by
\* says (findByLabelText, getByLabel: "label"; findByPlaceholderText,
\* getByPlaceholder: "placeholder"): it finds a rendered control inside the
\* driver's scope.
Finds(drv, pg, by, name) ==
    /\ name \in DOMAIN pg.fields
    /\ pg.fields[name].present
    /\ pg.fields[name].by = by
    /\ IsPrefix(drv.scope, pg.fields[name].within)

\* user.click(element), locator.click() on a control: a checkbox toggles.
Click(pg, name) ==
    IF pg.fields[name].type = "checkbox"
    THEN [pg EXCEPT !.fields[name].checked = ~@]
    ELSE pg

\* element.closest("form"): the enclosing form element, or null.
Closest(pg, name) ==
    [some |-> pg.fields[name].form # 0, form |-> pg.fields[name].form,
     has |-> ""]

\* scope.locator("form", {has: control}): a locator, resolved when used.
FormLocator(name) == [some |-> TRUE, form |-> 0, has |-> name]

\* root.querySelector(selector), scope.locator(selector): the element the
\* selector names, when it is a descendant of the element at path root.
Matches(root, pg, selector) ==
    /\ selector \in DOMAIN pg.regions
    /\ pg.regions[selector].present
    /\ IsPrefix(root, pg.regions[selector].within)

\* The path of the element the selector names: a driver rooted at that
\* element finds what lies below this path.
ElementPath(pg, selector) == Append(pg.regions[selector].within, selector)

\* document.body, the root of every path.
DocumentBody == <<>>

\* The property "container" of the object rtlWithin(element) returns.  The
\* object holds the queries bound to element and nothing else, so the
\* property is undefined.
BoundQueriesContainer(path) == [defined |-> FALSE, element |-> path]

\* ---- RTLDriver (rtl/driver.ts)
\* RTLDriver.visit with a plausible bug: a silent no-op.
RTLDriver_visit_NoOp(drv, pg) == Resolved(drv, pg)

RTLDriver_visit(drv, pg) ==
    Threw(drv, pg, <<"visit() is not available in the RTL adapter.",
                     "Render the desired component directly.">>)

\* RTLDriver.fillIn with a plausible bug: the form is not recorded.
RTLDriver_fillIn_NoRecord(drv, pg, label, value) ==
    IF Finds(drv, pg, "label", label) \/ Finds(drv, pg, "placeholder", label)
    THEN Resolved(drv, [pg EXCEPT !.fields[label].value = value])
    ELSE Threw(drv, pg, <<"findByPlaceholderText", label, "not found">>)

\* findByLabelText(label), else findByPlaceholderText(label); clear, type,
\* record the closest form.
RTLDriver_fillIn(drv, pg, label, value) ==
    IF Finds(drv, pg, "label", label) \/ Finds(drv, pg, "placeholder", label)
    THEN Resolved([drv EXCEPT !.lastForm = Closest(pg, label)],
                  [pg EXCEPT !.fields[label].value = value])
    ELSE Threw(drv, pg, <<"findByPlaceholderText", label, "not found">>)

\* RTLDriver.check with a plausible bug: the checkbox is clicked whatever
\* its state is.
RTLDriver_check_AlwaysClicks(drv, pg, label) ==
    IF Finds(drv, pg, "label", label)
    THEN Resolved([drv EXCEPT !.lastForm = Closest(pg, label)],
                  Click(pg, label))
    ELSE Threw(drv, pg, <<"findByLabelText", label, "not found">>)

\* RTLDriver.check with a plausible bug: the form is not recorded.
RTLDriver_check_NoRecord(drv, pg, label) ==
    IF Finds(drv, pg, "label", label)
    THEN Resolved(drv,
                  IF ~pg.fields[label].checked THEN Click(pg, label) ELSE pg)
    ELSE Threw(drv, pg, <<"findByLabelText", label, "not found">>)

\* findByLabelText(label); click unless checked; record the closest form.
RTLDriver_check(drv, pg, label) ==
    IF Finds(drv, pg, "label", label)
    THEN Resolved([drv EXCEPT !.lastForm = Closest(pg, label)],
                  IF ~pg.fields[label].checked THEN Click(pg, label) ELSE pg)
    ELSE Threw(drv, pg, <<"findByLabelText", label, "not found">>)

\* findByLabelText(label); click if checked; record the closest form.
RTLDriver_uncheck(drv, pg, label) ==
    IF Finds(drv, pg, "label", label)
    THEN Resolved([drv EXCEPT !.lastForm = Closest(pg, label)],
                  IF pg.fields[label].checked THEN Click(pg, label) ELSE pg)
    ELSE Threw(drv, pg, <<"findByLabelText", label, "not found">>)

\* Throws unless a form is recorded.  queryByRole("button", {name:
\* /submit/i}) inside the form throws when several buttons match and gives
\* the button when one does; when none does, querySelector gives the first
\* control of type submit.  The control found is clicked ("click": it is of
\* type submit; "clickNamed": it is not); without one requestSubmit() is
\* called.
RTLDriver_submit(drv, pg) ==
    LET form == pg.forms[drv.lastForm.form]
        byRole == {c \in {"typed", "plain"} :
                      \/ c = "typed" /\ form.button /\ form.named
                      \/ c = "plain" /\ form.plain}
    IN  IF ~drv.lastForm.some
        THEN Threw(drv, pg,
                 <<"submit() called but no form was previously interacted with.">>)
        ELSE IF Cardinality(byRole) > 1
        THEN Threw(drv, pg,
                 <<"queryByRole", "button", "Found multiple elements">>)
        ELSE Resolved(drv,
                 [pg EXCEPT !.submitted = Append(@,
                      [form |-> drv.lastForm.form,
                       via |-> IF byRole = {"plain"} THEN "clickNamed"
                               ELSE IF form.button THEN "click"
                               ELSE "requestSubmit"])])

\* RTLDriver.within with a plausible bug: the new driver is given the form
\* the driver has recorded.
RTLDriver_within_SharesForm(drv, pg, selector) ==
    LET c == BoundQueriesContainer(drv.scope)
        root == IF drv.scope = DocumentBody THEN DocumentBody
                ELSE IF c.defined THEN c.element ELSE DocumentBody
    IN  IF Matches(root, pg, selector)
        THEN [ok |-> TRUE,
              driver |-> [drv EXCEPT !.scope = ElementPath(pg, selector)],
              error |-> DriverError(<<"none">>)]
        ELSE [ok |-> FALSE, driver |-> drv,
              error |-> DriverError(<<"within", selector, "element not found">>)]

\* root is document.body when the container is screen, else
\* container.container ?? document.body; root.querySelector(selector);
\* throws on null, else a new RTLDriver on the element, with no form
\* recorded.
RTLDriver_within(drv, pg, selector) ==
    LET c == BoundQueriesContainer(drv.scope)
        root == IF drv.scope = DocumentBody THEN DocumentBody
                ELSE IF c.defined THEN c.element ELSE DocumentBody
    IN  IF Matches(root, pg, selector)
        THEN [ok |-> TRUE,
              driver |-> [drv EXCEPT !.scope = ElementPath(pg, selector),
                                     !.lastForm = NoForm],
              error |-> DriverError(<<"none">>)]
        ELSE [ok |-> FALSE, driver |-> drv,
              error |-> DriverError(<<"within", selector, "element not found">>)]

\* RTLDriver.debug with a plausible bug: the driver forgets its form.
RTLDriver_debug_ClearsForm(drv, pg) ==
    Resolved([drv EXCEPT !.lastForm = NoForm], pg)

\* screen.debug(): the document is printed.
RTLDriver_debug(drv, pg) == Resolved(drv, pg)

RTLDriver_assertHas(drv, pg, selector, text) ==
    Threw(drv, pg,
          <<"assertHas() with CSS selectors is not recommended in RTL.",
            "Use assertText() instead.">>)

RTLDriver_refuteHas(drv, pg, selector, text) ==
    Threw(drv, pg,
          <<"refuteHas() with CSS selectors is not recommended in RTL.",
            "Use refuteText() instead.">>)

RTLDriver_assertPath(drv, pg) ==
    Threw(drv, pg, <<"assertPath() is not available in the RTL adapter",
                     "(no real URL in JSDOM).">>)

RTLDriver_refutePath(drv, pg) ==
    Threw(drv, pg, <<"refutePath() is not available in the RTL adapter",
                     "(no real URL in JSDOM).">>)

\* ---- PlaywrightDriver (playwright/driver.ts)
\* getByLabel(label) if it matches, else getByPlaceholder(label): fill, and
\* record the locator of the form that has the control.
PlaywrightDriver_fillIn(drv, pg, label, value) ==
    IF Finds(drv, pg, "label", label) \/ Finds(drv, pg, "placeholder", label)
    THEN Resolved([drv EXCEPT !.lastForm = FormLocator(label)],
                  [pg EXCEPT !.fields[label].value = value])
    ELSE Threw(drv, pg, <<"locator.fill", label, "Timeout exceeded">>)

\* PlaywrightDriver.check with a plausible bug: the form locator is recorded
\* before checkbox.check() is awaited.
PlaywrightDriver_check_RecordsFirst(drv, pg, label) ==
    IF Finds(drv, pg, "label", label) /\ pg.fields[label].type = "checkbox"
    THEN Resolved([drv EXCEPT !.lastForm = FormLocator(label)],
                  IF ~pg.fields[label].checked THEN Click(pg, label) ELSE pg)
    ELSE Threw([drv EXCEPT !.lastForm = FormLocator(label)], pg,
               <<"locator.check", label, "Timeout exceeded">>)

\* locator.check(): a checked box is left alone, an unchecked one is
\* clicked; a control that cannot be checked makes it throw.
PlaywrightDriver_check(drv, pg, label) ==
    IF Finds(drv, pg, "label", label) /\ pg.fields[label].type = "checkbox"
    THEN Resolved([drv EXCEPT !.lastForm = FormLocator(label)],
                  IF ~pg.fields[label].checked THEN Click(pg, label) ELSE pg)
    ELSE Threw(drv, pg, <<"locator.check", label, "Timeout exceeded">>)

PlaywrightDriver_uncheck(drv, pg, label) ==
    IF Finds(drv, pg, "label", label) /\ pg.fields[label].type = "checkbox"
    THEN Resolved([drv EXCEPT !.lastForm = FormLocator(label)],
                  IF pg.fields[label].checked THEN Click(pg, label) ELSE pg)
    ELSE Threw(drv, pg, <<"locator.uncheck", label, "Timeout exceeded">>)

\* Throws unless a locator is recorded.  The locator is resolved now: the
\* form, inside the driver's scope, that has the control.  The form's submit
\* control is clicked; without one (or without a form) Enter is pressed on
\* the last input of the form, which times out when there is no form.
PlaywrightDriver_submit(drv, pg) ==
    LET name == drv.lastForm.has
        form == IF Finds(drv, pg, pg.fields[name].by, name)
                THEN pg.fields[name].form ELSE 0
    IN  IF ~drv.lastForm.some
        THEN Threw(drv, pg,
                 <<"submit() called but no form was previously interacted with.",
                   "Use fillIn(), selectOption(), check(), uncheck(), or choose() first.">>)
        ELSE IF form = 0
        THEN Threw(drv, pg, <<"locator.press", "form", "Timeout exceeded">>)
        ELSE Resolved(drv,
                 [pg EXCEPT !.submitted = Append(@,
                      [form |-> form,
                       via |-> IF pg.forms[form].button
                               THEN "click" ELSE "Enter"])])

\* scope.locator(selector); expect(locator).toBeAttached() throws when the
\* scope holds no such element; else a new PlaywrightDriver on the locator,
\* with no form recorded.
PlaywrightDriver_within(drv, pg, selector) ==
    IF Matches(drv.scope, pg, selector)
    THEN [ok |-> TRUE,
          driver |-> [drv EXCEPT !.scope = ElementPath(pg, selector),
                                 !.lastForm = NoForm],
          error |-> DriverError(<<"none">>)]
    ELSE [ok |-> FALSE, driver |-> drv,
          error |-> DriverError(<<"expect.toBeAttached", selector,
                                  "Timeout exceeded">>)]

\* await page.screenshot({path, fullPage: true}).
PlaywrightDriver_debug(drv, pg) ==
    IF pg.screenshot
    THEN Resolved(drv, pg)
    ELSE Threw(drv, pg, <<"page.screenshot", "failed">>)

\* new URLSearchParams(queryParams).toString(): "k=v" for each property, in
\* the order of the object's properties, joined by "&".
RECURSIVE URLSearchParams(_)
URLSearchParams(pairs) ==
    IF pairs = <<>> THEN <<>>
    ELSE <<pairs[1][1], "=", pairs[1][2]>>
         \o (IF Len(pairs) > 1
             THEN <<"&">> \o URLSearchParams(Tail(pairs)) ELSE <<>>)

\* page.url(): the text of the location.
Url(loc) ==
    <<Origin>> \o loc.path
        \o (IF loc.mark THEN <<"?">> \o URLSearchParams(loc.query) ELSE <<>>)

\* expect(page).toHaveURL(text): text, resolved against the base URL, is
\* the URL of the page.
ToHaveURL(loc, text) == Url(loc) = <<Origin>> \o text

\* ToHaveURLPattern with a plausible bug: the pattern lacks the optional
\* query, `^[^?]*${escaped}$`.
ToHaveURLPattern_NoQuery(loc, path) ==
    LET url == Url(loc)
    IN  \E i \in 0..Len(url) :
            /\ i + Len(path) = Len(url)
            /\ \A j \in 1..i : url[j] # "?"
            /\ SubSeq(url, i + 1, i + Len(path)) = path

\* expect(page).toHaveURL(new RegExp(`^[^?]*${escaped}(\\?.*)?$`)): the URL
\* is some text without "?", then path, then nothing or "?" and any text.
ToHaveURLPattern(loc, path) ==
    LET url == Url(loc)
    IN  \E i \in 0..Len(url) :
            /\ i + Len(path) <= Len(url)
            /\ \A j \in 1..i : url[j] # "?"
            /\ SubSeq(url, i + 1, i + Len(path)) = path
            /\ \/ i + Len(path) = Len(url)
               \/ url[i + Len(path) + 1] = "?"

PlaywrightDriver_assertPath(drv, pg, path, opts) ==
    IF opts.queryParams.some
    THEN IF ToHaveURL(pg.location,
                      path \o <<"?">> \o URLSearchParams(opts.queryParams.pairs))
         THEN Resolved(drv, pg)
         ELSE Threw(drv, pg, <<"expect.toHaveURL", "Timeout exceeded">>)
    ELSE IF ToHaveURLPattern(pg.location, path)
         THEN Resolved(drv, pg)
         ELSE Threw(drv, pg, <<"expect.toHaveURL", "Timeout exceeded">>)

\* new URL(page.url()).pathname === path throws.
PlaywrightDriver_refutePath(drv, pg, path) ==
    IF pg.location.path = path
    THEN Threw(drv, pg, <<"Expected path to NOT be", "but it is.">>)
    ELSE Resolved(drv, pg)

\* this.driver.<op>(args): the operation of the driver's class.
TestDriver(drv, pg, op, args) ==
    IF drv.kind = "rtl"
    THEN CASE op = "visit" -> RTLDriver_visit(drv, pg)
           [] op = "fillIn" -> RTLDriver_fillIn(drv, pg, args[1], args[2])
           [] op = "check" -> RTLDriver_check(drv, pg, args[1])
           [] op = "uncheck" -> RTLDriver_uncheck(drv, pg, args[1])
           [] op = "submit" -> RTLDriver_submit(drv, pg)
           [] op = "assertHas" -> RTLDriver_assertHas(drv, pg, args[1], args[2])
           [] op = "refuteHas" -> RTLDriver_refuteHas(drv, pg, args[1], args[2])
           [] op = "assertPath" -> RTLDriver_assertPath(drv, pg)
           [] op = "refutePath" -> RTLDriver_refutePath(drv, pg)
           [] op = "debug" -> RTLDriver_debug(drv, pg)
    ELSE CASE op = "fillIn" -> PlaywrightDriver_fillIn(drv, pg, args[1], args[2])
           [] op = "check" -> PlaywrightDriver_check(drv, pg, args[1])
           [] op = "uncheck" -> PlaywrightDriver_uncheck(drv, pg, args[1])
           [] op = "submit" -> PlaywrightDriver_submit(drv, pg)
           [] op = "assertPath" ->
                  PlaywrightDriver_assertPath(drv, pg, args[1], args[2])
           [] op = "refutePath" -> PlaywrightDriver_refutePath(drv, pg, args[1])
           [] op = "debug" -> PlaywrightDriver_debug(drv, pg)

\* this.driver.within(selector) on the page: the driver's own method.
TestDriver_within(drv, pg, selector) ==
    IF drv.kind = "rtl"
    THEN RTLDriver_within(drv, pg, selector)
    ELSE PlaywrightDriver_within(drv, pg, selector)

\* ---------------------------------------------------------- executeSteps
\* An activation of executeSteps: its private snapshot (steps), the position
\* of the for-of loop (pc), the promise it returned (state, error) and what
\* the running action awaits:
\*   "op"       the promise of a driver operation,
\*   "lookup"   the promise of driver.within(selector),
\*   "thenable" fn has returned Session target; its then() is still to run,
\*   "nested"   the promise of the drain child that then() started.
\* The other fields are history: the steps whose action the drain started
\* (invoked) and whose action has settled (settled), the within steps whose
\* callback it called (ran) and whose selector matched no element (missing),
\* the error its failing action threw (thrown), and how many calls had been
\* issued on the Session when the drain began (seen).
NewDrain(self, batch) ==
    [session |-> self, steps |-> batch, pc |-> 1, state |-> "running",
     await |-> "none", target |-> 0, child |-> 0, error |-> 0,
     invoked |-> <<>>, settled |-> <<>>, ran |-> <<>>, missing |-> <<>>,
     thrown |-> 0, seen |-> 0]

\* StartStep with a plausible bug: the await is missing, so the action of
\* the following step is started as well.
StartStep_NoAwait(dr) ==
    IF dr.pc > Len(dr.steps)
    THEN [dr EXCEPT !.state = "resolved", !.await = "none"]
    ELSE [dr EXCEPT !.invoked =
                        IF dr.pc < Len(dr.steps)
                        THEN @ \o <<dr.steps[dr.pc].ref, dr.steps[dr.pc + 1].ref>>
                        ELSE Append(@, dr.steps[dr.pc].ref),
                    !.await = IF dr.steps[dr.pc].action.op = "within"
                              THEN "lookup" ELSE "op"]

\* The head of the for-of loop at position dr.pc: past the last step the
\* async function returns (its promise resolves); otherwise step.action()
\* is called, which runs up to its first await.
StartStep(dr) ==
    IF dr.pc > Len(dr.steps)
    THEN [dr EXCEPT !.state = "resolved", !.await = "none"]
    ELSE [dr EXCEPT !.invoked = Append(@, dr.steps[dr.pc].ref),
                    !.await = IF dr.steps[dr.pc].action.op = "within"
                              THEN "lookup" ELSE "op"]

\* Continue with a plausible bug: the loop steps over the next step.
Continue_SkipsOne(dr) ==
    StartStep([dr EXCEPT !.pc = @ + 2,
                         !.settled = Append(@, dr.steps[dr.pc].ref)])

\* The awaited action resolved: the loop goes on with the next step.
Continue(dr) ==
    StartStep([dr EXCEPT !.pc = @ + 1,
                         !.settled = Append(@, dr.steps[dr.pc].ref)])

\* The awaited action rejected with the error thrown: the catch block throws
\* the StepError that is allocated at reference id.
Rejected(dr, id, thrown) ==
    [dr EXCEPT !.state = "rejected", !.await = "none", !.error = id,
               !.thrown = thrown,
               !.settled = Append(@, dr.steps[dr.pc].ref)]

\* executeSteps with a plausible bug: the queue is not replaced by an empty
\* one.
executeSteps_KeepsQueue(ss, self) ==
    [heap |-> ss,
     drain |-> StartStep(NewDrain(self, ss[self].steps))]

\* executeSteps with a plausible bug: only the first step is taken off the
\* queue, the steps after it stay pending.
executeSteps_KeepsTail(ss, self) ==
    [heap |-> [ss EXCEPT ![self].steps =
                             IF @ = <<>> THEN <<>> ELSE Tail(@)],
     drain |-> StartStep(NewDrain(self, ss[self].steps))]

\* executeSteps with a plausible bug: the index restarts with every drain.
executeSteps_ResetsIndex(ss, self) ==
    [heap |-> [ss EXCEPT ![self].steps = <<>>, ![self].stepIndex = 0],
     drain |-> StartStep(NewDrain(self, ss[self].steps))]

\* executeSteps() on Session self, up to its first await: copy the queue,
\* replace it by an empty one, start the first step.  The result is the heap
\* of Sessions after it and the new activation.
executeSteps(ss, self) ==
    [heap |-> [ss EXCEPT ![self].steps = <<>>],
     drain |-> StartStep(NewDrain(self, ss[self].steps))]

\* ---------------------------------------------------------------- actions
Init ==
    /\ sessions = <<NewSession(RootDriver)>>
    /\ drains = <<>>
    /\ errors = <<>>
    /\ returned = 0
    /\ issued = << <<>> >>
    /\ triggers = 0
    /\ page = BlankPage

\* An entry of the history of calls: the call and who made it, the test code
\* or a within callback.
Issued(c, by) == [m |-> c.m, args |-> c.args, by |-> by]

IssuedAll(calls, by) == [i \in DOMAIN calls |-> Issued(calls[i], by)]

\* The test code makes the fluent call c on the root Session; it makes at
\* most calls of them.
Call(c, calls) ==
    /\ Cardinality({i \in DOMAIN issued[Root] : issued[Root][i].by = "test"})
           < calls
    /\ LET r == Invoke(sessions, Root, c)
       IN  /\ sessions' = r.heap
           /\ returned' = r.ret
    /\ issued' = [issued EXCEPT ![Root] = Append(@, Issued(c, "test"))]
    /\ UNCHANGED <<drains, errors, triggers, page>>

\* The test code awaits the root Session: then() calls executeSteps().  The
\* test has at most awaits such awaits.
then(awaits) ==
    /\ triggers < awaits
    /\ LET r == executeSteps(sessions, Root)
       IN  /\ sessions' = r.heap
           /\ drains' = Append(drains,
                  [r.drain EXCEPT !.seen = Len(issued[Root])])
    /\ triggers' = triggers + 1
    /\ UNCHANGED <<errors, returned, issued, page>>

\* The driver operation that drain d awaits settles.  The back end is an
\* external collaborator: it resolves, or rejects with an Error of its own.
OpSettles(d, ok) ==
    /\ d <= Len(drains)
    /\ drains[d].state = "running"
    /\ drains[d].await = "op"
    /\ IF ok
       THEN /\ drains' = [drains EXCEPT ![d] = Continue(@)]
            /\ UNCHANGED errors
       ELSE LET dr == drains[d]
                e == Len(errors) + 1
                thrown == DriverError(<<dr.steps[dr.pc].action.op, "failed">>)
                errs == Append(errors, thrown)
            IN  /\ errors' = Append(errs,
                       StepError(errs, dr.steps[dr.pc], dr.steps, e))
                /\ drains' = [drains EXCEPT ![d] = Rejected(@, e + 1, e)]
    /\ UNCHANGED <<sessions, returned, issued, triggers, page>>

\* The driver operation that drain d awaits runs on the page and settles:
\* the operation of the Session's driver decides how, and leaves its mark on
\* the driver and on the page.
OpRuns(d) ==
    LET dr == drains[d]
        act == dr.steps[dr.pc].action
        r == TestDriver(sessions[act.self].driver, page, act.op, act.args)
    IN  /\ d <= Len(drains)
        /\ dr.state = "running"
        /\ dr.await = "op"
        /\ sessions' = [sessions EXCEPT ![act.self].driver = r.driver]
        /\ page' = r.page
        /\ IF r.ok
           THEN /\ drains' = [drains EXCEPT ![d] = Continue(@)]
                /\ UNCHANGED errors
           ELSE LET e == Len(errors) + 1
                    errs == Append(errors, r.error)
                IN  /\ errors' = Append(errs,
                           StepError(errs, dr.steps[dr.pc], dr.steps, e))
                    /\ drains' = [drains EXCEPT ![d] = Rejected(@, e + 1, e)]
        /\ UNCHANGED <<returned, issued, triggers>>

\* RunFn with a plausible bug: fn is handed the enclosing Session instead of
\* the scoped one.
RunFn_OnOuter(ss, outerSelf, scopedSelf, fn) ==
    LET o == Chain(ss, outerSelf, fn.outer)
        n == Chain(o.heap, outerSelf, fn.scoped)
    IN  [heap |-> n.heap, ret |-> IF fn.ret = "outer" THEN o.ret ELSE n.ret]

\* fn(scopedSession): the callback queues fn.outer on the enclosing Session
\* and builds the chain fn.scoped on the scoped one; its value is the end of
\* the chain it returns.
RunFn(ss, outerSelf, scopedSelf, fn) ==
    LET o == Chain(ss, outerSelf, fn.outer)
        n == Chain(o.heap, scopedSelf, fn.scoped)
    IN  [heap |-> n.heap, ret |-> IF fn.ret = "outer" THEN o.ret ELSE n.ret]

\* DriverWithin with a plausible bug: the missing element is not checked for.
DriverWithin_NoNullCheck(driver, selector, found) ==
    [ok |-> TRUE,
     driver |-> [driver EXCEPT !.scope = Append(@, selector),
                               !.lastForm = NoForm],
     error |-> DriverError(<<"none">>)]

\* driver.within(selector) of either back end.  found says whether the
\* selector matches an element of the driver's scope when it is looked up:
\* the RTL driver throws on a null querySelector result, the Playwright
\* driver's toBeAttached expectation throws; otherwise a new driver, rooted
\* at the element, is returned.
DriverWithin(driver, selector, found) ==
    IF found
    THEN [ok |-> TRUE,
          driver |-> [driver EXCEPT !.scope = Append(@, selector),
                                    !.lastForm = NoForm],
          error |-> DriverError(<<"none">>)]
    ELSE [ok |-> FALSE, driver |-> driver,
          error |-> DriverError(<<"within", selector, "element not found">>)]

\* driver.within(selector), awaited by the within step of drain d, settles.
\* Rejected: the step fails.  Resolved: the action makes the scoped Session,
\* calls fn and awaits what fn returned.
LookupSettles(d, found) ==
    LET dr == drains[d]
        act == dr.steps[dr.pc].action
        w == DriverWithin(sessions[act.self].driver, act.args[1], found)
    IN  /\ d <= Len(drains)
        /\ dr.state = "running"
        /\ dr.await = "lookup"
        /\ IF w.ok
           THEN LET scoped == Len(sessions) + 1
                    r == RunFn(Append(sessions, NewSession(w.driver)),
                               act.self, scoped, act.fn)
                IN  /\ sessions' = r.heap
                    /\ drains' = [drains EXCEPT
                           ![d].await = "thenable",
                           ![d].target = r.ret,
                           ![d].ran = Append(@, dr.steps[dr.pc].ref),
                           ![d].missing = IF found THEN @ ELSE
                               Append(@, dr.steps[dr.pc].ref)]
                    /\ issued' = Append(
                           [issued EXCEPT ![act.self] =
                               @ \o IssuedAll(act.fn.outer, "fn")],
                           IssuedAll(act.fn.scoped, "fn"))
                    /\ UNCHANGED errors
           ELSE LET e == Len(errors) + 1
                    errs == Append(errors, w.error)
                IN  /\ errors' = Append(errs,
                           StepError(errs, dr.steps[dr.pc], dr.steps, e))
                    /\ drains' = [drains EXCEPT ![d] = Rejected(
                           [@ EXCEPT !.missing = IF found THEN @ ELSE
                                Append(@, dr.steps[dr.pc].ref)], e + 1, e)]
                    /\ UNCHANGED <<sessions, issued>>
        /\ UNCHANGED <<returned, triggers, page>>

\* The within step of drain d runs on the page: driver.within(selector)
\* looks the selector up in the document.  Rejected: the step fails.
\* Resolved: the action makes the scoped Session on the driver returned,
\* calls fn and awaits what fn returned.
WithinRuns(d) ==
    LET dr == drains[d]
        act == dr.steps[dr.pc].action
        w == TestDriver_within(sessions[act.self].driver, page, act.args[1])
    IN  /\ d <= Len(drains)
        /\ dr.state = "running"
        /\ dr.await = "lookup"
        /\ IF w.ok
           THEN LET scoped == Len(sessions) + 1
                    r == RunFn(Append(sessions, NewSession(w.driver)),
                               act.self, scoped, act.fn)
                IN  /\ sessions' = r.heap
                    /\ drains' = [drains EXCEPT
                           ![d].await = "thenable",
                           ![d].target = r.ret,
                           ![d].ran = Append(@, dr.steps[dr.pc].ref)]
                    /\ issued' = Append(
                           [issued EXCEPT ![act.self] =
                               @ \o IssuedAll(act.fn.outer, "fn")],
                           IssuedAll(act.fn.scoped, "fn"))
                    /\ UNCHANGED errors
           ELSE LET e == Len(errors) + 1
                    errs == Append(errors, w.error)
                IN  /\ errors' = Append(errs,
                           StepError(errs, dr.steps[dr.pc], dr.steps, e))
                    /\ drains' = [drains EXCEPT ![d] = Rejected(
                           [@ EXCEPT !.missing =
                                Append(@, dr.steps[dr.pc].ref)], e + 1, e)]
                    /\ UNCHANGED <<sessions, issued>>
        /\ UNCHANGED <<returned, triggers, page>>

\* AwaitThenable with a plausible bug: then() hands out the promise of the
\* drain of the Session that is still running instead of starting a new one,
\* so that a within step whose callback returns the enclosing Session awaits
\* the drain it is part of.
AwaitThenable_JoinsRunning(d) ==
    /\ d <= Len(drains)
    /\ drains[d].state = "running"
    /\ drains[d].await = "thenable"
    /\ LET t == drains[d].target
           busy == {c \in DOMAIN drains :
                       drains[c].session = t /\ drains[c].state = "running"}
           r == executeSteps(sessions, t)
       IN  IF busy # {}
           THEN /\ drains' = [drains EXCEPT
                       ![d].await = "nested",
                       ![d].child = CHOOSE c \in busy : TRUE]
                /\ UNCHANGED sessions
           ELSE /\ sessions' = r.heap
                /\ drains' = Append(
                       [drains EXCEPT ![d].await = "nested",
                                      ![d].child = Len(drains) + 1],
                       [r.drain EXCEPT !.seen = Len(issued[t])])
    /\ UNCHANGED <<errors, returned, issued, triggers, page>>

\* AwaitThenable with a plausible bug: fn(scopedSession) is not awaited, so
\* the within action resolves at once and the Session fn returned is never
\* drained.
AwaitThenable_NoAwait(d) ==
    /\ d <= Len(drains)
    /\ drains[d].state = "running"
    /\ drains[d].await = "thenable"
    /\ drains' = [drains EXCEPT ![d] = Continue(@)]
    /\ UNCHANGED <<sessions, errors, returned, issued, triggers, page>>

\* await fn(scopedSession): the Session fn returned is a thenable, so the
\* await calls its then(), which calls executeSteps() on it.
AwaitThenable(d) ==
    /\ d <= Len(drains)
    /\ drains[d].state = "running"
    /\ drains[d].await = "thenable"
    /\ LET t == drains[d].target
           r == executeSteps(sessions, t)
       IN  /\ sessions' = r.heap
           /\ drains' = Append(
                  [drains EXCEPT ![d].await = "nested",
                                 ![d].child = Len(drains) + 1],
                  [r.drain EXCEPT !.seen = Len(issued[t])])
    /\ UNCHANGED <<errors, returned, issued, triggers, page>>

\* The drain that the within step of drain d awaits has settled: resolved,
\* the within action returns; rejected, the action rejects with that drain's
\* StepError and the catch block wraps it.
NestedSettles(d) ==
    LET dr == drains[d]
    IN  /\ d <= Len(drains)
        /\ dr.state = "running"
        /\ dr.await = "nested"
        /\ drains[dr.child].state # "running"
        /\ IF drains[dr.child].state = "resolved"
           THEN /\ drains' = [drains EXCEPT ![d] = Continue(@)]
                /\ UNCHANGED errors
           ELSE LET thrown == drains[dr.child].error
                IN  /\ errors' = Append(errors,
                           StepError(errors, dr.steps[dr.pc], dr.steps, thrown))
                    /\ drains' = [drains EXCEPT
                           ![d] = Rejected(@, Len(errors) + 1, thrown)]
        /\ UNCHANGED <<sessions, returned, issued, triggers, page>>

\* The promises that settle: every activation runs on by itself.
\* Every await of the test and every within step starts one activation.
DrainIds == 1..(MaxTriggers + 2 * MaxCalls)

Settle ==
    \E d \in DrainIds :
        \/ \E ok \in BOOLEAN : OpSettles(d, ok)
        \/ \E found \in BOOLEAN : LookupSettles(d, found)
        \/ AwaitThenable(d)
        \/ NestedSettles(d)

\* A test that makes at most calls of the calls in C on the root Session and
\* awaits it at most awaits times, and the promises that settle meanwhile.
NextOver(C, calls, awaits) ==
    \/ \E c \in C : Call(c, calls)
    \/ then(awaits)
    \/ Settle

\* The calls of the tests of the drain: a driver step, and within with each
\* callback.
CoreCalls == CallsOf("click") \cup CallsOf("within")

\* A test with one await: a chain of up to MaxCalls calls, awaited once.
Next == NextOver(CoreCalls, MaxCalls, 1)

Spec == Init /\ [][Next]_vars

\* Every promise an activation awaits settles in the end: the back end's
\* operations and lookups by assumption, the awaits of thenables and of
\* nested drains because the job queue of the runtime runs every job.
Fairness ==
    \A d \in DrainIds :
        /\ WF_vars(\E ok \in BOOLEAN : OpSettles(d, ok))
        /\ WF_vars(\E found \in BOOLEAN : LookupSettles(d, found))
        /\ WF_vars(AwaitThenable(d))
        /\ WF_vars(NestedSettles(d))

\* A test with one await of a chain of up to MaxCalls - 1 calls, when every
\* promise settles in the end.
NextLive == NextOver(CoreCalls, MaxCalls - 1, 1)

SpecLive == Init /\ [][NextLive]_vars /\ Fairness

\* The calls of the tests that await a Session again: a driver step, and
\* within with the callback that queues on the enclosing Session and returns
\* it, so that the within step awaits the Session the test awaits.
AgainCalls ==
    CallsOf("click") \cup {c \in CallsOf("within") : c.fn = FnOuter}

\* Several awaits of the same Session, with calls before and between them.
NextAgain == NextOver(AgainCalls, MaxCalls - 1, MaxTriggers)

SpecAgain == Init /\ [][NextAgain]_vars

\* The whole fluent surface, each method with each of its argument shapes.
NextFluent == NextOver(UNION {CallsOf(m) : m \in Methods}, MaxCalls - 1, 1)

SpecFluent == Init /\ [][NextFluent]_vars

\* ---- tests against a back end
\* createSession() of either package: a root Session on a new driver, and
\* the page the test has rendered or opened.
InitOn(drivers, pages) ==
    /\ \E driver \in drivers : sessions = <<NewSession(driver)>>
    /\ drains = <<>>
    /\ errors = <<>>
    /\ returned = 0
    /\ issued = << <<>> >>
    /\ triggers = 0
    /\ page \in pages

\* A test that makes at most calls of the calls in C, none of them within,
\* on the root Session and awaits it at most awaits times; the operations
\* run on the page.
NextOps(C, calls, awaits) ==
    \/ \E c \in C : Call(c, calls)
    \/ then(awaits)
    \/ \E d \in DrainIds : OpRuns(d)

\* The same with within steps among the calls.
NextOn(C, calls, awaits) ==
    \/ NextOps(C, calls, awaits)
    \/ \E d \in DrainIds :
           \/ \E found \in BOOLEAN : LookupSettles(d, found)
           \/ AwaitThenable(d)
           \/ NestedSettles(d)

\* The documents of the form tests: the text input "l", absent, or named by
\* a label and outside any form or in form 1, or named by a placeholder and
\* in form 1; the checkbox "t", absent, or outside any form, or in form 2
\* and checked or not.
FormPages ==
    {Page(Location(<<>>, FALSE, <<>>), l, t) :
        l \in {Control(FALSE, "label", "text", 0),
               Control(TRUE, "label", "text", 0),
               Control(TRUE, "label", "text", 1),
               Control(TRUE, "placeholder", "text", 1)},
        t \in {Control(FALSE, "label", "checkbox", 0),
               Control(TRUE, "label", "checkbox", 0)}
               \cup {[Control(TRUE, "label", "checkbox", 2)
                          EXCEPT !.checked = b] : b \in BOOLEAN}}

\*   (s) => s.submit()
FnSubmit ==
    [outer |-> <<>>, scoped |-> <<CallOf("submit", <<>>, NoFn)>>,
     ret |-> "scoped"]

\* The calls of the form tests.
FormCalls ==
    {CallOf("fillIn", <<"l", "v">>, NoFn), CallOf("check", <<"t">>, NoFn),
     CallOf("submit", <<>>, NoFn), CallOf("within", <<"#s">>, FnSubmit)}

\* A form test on either back end: a chain of up to MaxCalls calls, awaited
\* once.
InitForm == InitOn({RTLDriver(<<>>), PlaywrightDriver(<<>>)}, FormPages)

NextForm == NextOn(FormCalls, MaxCalls, 1)

SpecForm == InitForm /\ [][NextForm]_vars

\* The documents of the checkbox tests: the checkbox "t" of the form pages.
CheckPages ==
    {pg \in FormPages : pg.fields["l"] = Control(FALSE, "label", "text", 0)}

\* The calls of the checkbox tests.
CheckCalls ==
    {CallOf("check", <<"t">>, NoFn), CallOf("uncheck", <<"t">>, NoFn)}

\* A checkbox test on either back end.
InitCheck == InitOn({RTLDriver(<<>>), PlaywrightDriver(<<>>)}, CheckPages)

NextCheck == NextOps(CheckCalls, MaxCalls, 1)

SpecCheck == InitCheck /\ [][NextCheck]_vars

\* The operations the RTL driver does not support.
Unsupported == {"visit", "assertPath", "refutePath", "assertHas", "refuteHas"}

\* The calls of the tests of the unsupported operations: each of them with
\* each of its argument shapes, and an operation the RTL driver supports.
UnsupportedCalls ==
    UNION {CallsOf(m) : m \in Unsupported} \cup {CallOf("check", <<"t">>, NoFn)}

\* A test on the RTL back end that awaits the Session again after a failure.
InitRTL == InitOn({RTLDriver(<<>>)}, CheckPages)

NextRTL == NextOps(UnsupportedCalls, MaxCalls - 1, MaxTriggers)

SpecRTL == InitRTL /\ [][NextRTL]_vars

\* The locations of the path tests: "/b" and "/a/b", without a query, with
\* the query x=1&y=1 in either order, and with x=1 alone.
PathPages ==
    {[BlankPage EXCEPT !.location = Location(path, query # <<>>, query)] :
        path \in {<<"b">>, <<"a", "b">>},
        query \in {<<>>, << <<"x", "1">> >>,
                   << <<"x", "1">>, <<"y", "1">> >>,
                   << <<"y", "1">>, <<"x", "1">> >>}}

\* The calls of the path tests: assertPath("/b"), assertPath("/a"),
\* assertPath("/b", {queryParams: {x: "1", y: "1"}}), refutePath("/b"),
\* refutePath("/a").
PathCalls ==
    {CallOf("assertPath", <<path, NoOpts>>, NoFn) :
         path \in {<<"a">>, <<"b">>}}
    \cup {CallOf("assertPath",
                 <<<<"b">>, AssertPathOptions(TRUE,
                                << <<"x", "1">>, <<"y", "1">> >>)>>, NoFn)}
    \cup {CallOf("refutePath", <<path>>, NoFn) : path \in {<<"a">>, <<"b">>}}

\* A path test on the Playwright back end, which awaits the Session again
\* after a failure.
InitPath == InitOn({PlaywrightDriver(<<>>)}, PathPages)

NextPath == NextOps(PathCalls, MaxCalls - 1, MaxTriggers)

SpecPath == InitPath /\ [][NextPath]_vars

\* The documents of the submit tests: the input "l" lies in form 1, which
\* holds each combination of a control of type submit, named "submit" or
\* not, and a button of another type named "submit".
SubmitPages ==
    {pg \in {[Page(Location(<<>>, FALSE, <<>>),
                   Control(TRUE, "label", "text", 1),
                   Control(FALSE, "label", "checkbox", 0))
                 EXCEPT !.forms[1] = Form(button, named, plain)] :
                 button \in BOOLEAN, named \in BOOLEAN, plain \in BOOLEAN} :
        pg.forms[1].named => pg.forms[1].button}

\* The calls of the submit tests.
SubmitCalls ==
    {CallOf("fillIn", <<"l", "v">>, NoFn), CallOf("submit", <<>>, NoFn)}

\* A submit test on either back end.
InitSubmit == InitOn({RTLDriver(<<>>), PlaywrightDriver(<<>>)}, SubmitPages)

NextSubmit == NextOps(SubmitCalls, MaxCalls, 1)

SpecSubmit == InitSubmit /\ [][NextSubmit]_vars

\* The documents of the debug tests: the input "l" lies in form 1 or is not
\* rendered, and a screenshot can be taken or not.
DebugPages ==
    {[Page(Location(<<>>, FALSE, <<>>), l,
           Control(FALSE, "label", "checkbox", 0))
         EXCEPT !.screenshot = shot] :
        l \in {Control(TRUE, "label", "text", 1),
               Control(FALSE, "label", "text", 0)},
        shot \in BOOLEAN}

\* The calls of the debug tests.
DebugCalls ==
    {CallOf("fillIn", <<"l", "v">>, NoFn), CallOf("debug", <<>>, NoFn),
     CallOf("submit", <<>>, NoFn)}

\* A debug test on either back end.
InitDebug == InitOn({RTLDriver(<<>>), PlaywrightDriver(<<>>)}, DebugPages)

NextDebug == NextOps(DebugCalls, MaxCalls, 1)

SpecDebug == InitDebug /\ [][NextDebug]_vars

\* The documents of the scoping tests: the element "#s" holds the input "l",
\* which lies in form 1; the element "#c" is absent, or lies inside "#s", or
\* lies outside it.
ScopePages ==
    {[Page(Location(<<>>, FALSE, <<>>),
           [Control(TRUE, "label", "text", 1) EXCEPT !.within = <<"#s">>],
           Control(FALSE, "label", "checkbox", 0))
         EXCEPT !.regions = [sel \in {"#s", "#c"} |->
                                IF sel = "#s" THEN Region(TRUE, <<>>) ELSE c]] :
        c \in {Region(FALSE, <<>>), Region(TRUE, <<"#s">>), Region(TRUE, <<>>)}}

\*   (s) => s.fillIn("l", "v")
FnFill ==
    [outer |-> <<>>, scoped |-> <<CallOf("fillIn", <<"l", "v">>, NoFn)>>,
     ret |-> "scoped"]

\*   (s) => s.within("#c", (c) => c)
FnNested ==
    [outer |-> <<>>, scoped |-> <<CallOf("within", <<"#c">>, FnSelf)>>,
     ret |-> "scoped"]

\* The calls of the scoping tests.
ScopeCalls ==
    {CallOf("fillIn", <<"l", "v">>, NoFn), CallOf("submit", <<>>, NoFn),
     CallOf("within", <<"#s">>, FnFill), CallOf("within", <<"#s">>, FnSubmit),
     CallOf("within", <<"#s">>, FnNested)}

\* A scoping test on either back end: a chain of up to MaxCalls calls,
\* awaited once; the within steps look their selectors up in the document.
InitScope == InitOn({RTLDriver(<<>>), PlaywrightDriver(<<>>)}, ScopePages)

NextScope ==
    \/ NextOps(ScopeCalls, MaxCalls, 1)
    \/ \E d \in DrainIds :
           \/ WithinRuns(d)
           \/ AwaitThenable(d)
           \/ NestedSettles(d)

SpecScope == InitScope /\ [][NextScope]_vars

\* ------------------------------------------------------------ properties
Range(f) == {f[i] : i \in DOMAIN f}

\* The identities of the steps of a batch, in batch order.
Refs(steps) == [i \in DOMAIN steps |-> steps[i].ref]

\* The status the report of a drain that failed at position k must show at
\* position i.
StatusAt(i, k) ==
    IF i < k THEN "[ok]" ELSE IF i = k THEN "[FAILED]" ELSE "[skipped]"

\* C1: a drain in which no action fails resolves, and it has started the
\* action of each step of its batch exactly once, in the order in which the
\* calls were issued on the Session (the batch is the last calls issued
\* before the trigger, in that order).
C1_EachOnceInOrder ==
    \A d \in DOMAIN drains :
        LET dr == drains[d]
            n == Len(dr.steps)
            calls == issued[dr.session]
        IN  /\ dr.state = "rejected" => dr.thrown \in DOMAIN errors
            /\ dr.state = "resolved" =>
                   /\ dr.thrown = 0
                   /\ dr.invoked = Refs(dr.steps)
                   /\ \A i, j \in 1..n : i # j => dr.invoked[i] # dr.invoked[j]
                   /\ n <= dr.seen
                   /\ \A i \in 1..n :
                          /\ dr.steps[i].action.op = calls[dr.seen - n + i].m
                          /\ dr.steps[i].action.args = calls[dr.seen - n + i].args
                          /\ dr.steps[i].ref = <<dr.session, dr.seen - n + i - 1>>

\* A chain of MaxCalls steps, clicks and within steps among them, has been
\* awaited and has resolved.
C1_Witness ==
    \E d \in DOMAIN drains :
        /\ drains[d].state = "resolved"
        /\ Len(drains[d].steps) = MaxCalls
        /\ \E i, j \in 1..MaxCalls :
               /\ i < j
               /\ drains[d].steps[i].action.op = "within"
               /\ drains[d].steps[j].action.op = "click"

\* C2: when step k of a batch is the first to fail, the report lists every
\* step of the batch, steps before k as [ok], step k as [FAILED], steps after
\* k as [skipped], and the drain has started the actions of steps 1..k and of
\* no step after k.
C2_OkFailedSkipped ==
    \A d \in DOMAIN drains :
        LET dr == drains[d]
            k == dr.pc
        IN  dr.state = "rejected" =>
                LET chain == errors[dr.error].message.chain
                IN  /\ k \in 1..Len(dr.steps)
                    /\ DOMAIN chain = DOMAIN dr.steps
                    /\ \A i \in DOMAIN dr.steps :
                           /\ chain[i].name = dr.steps[i].name
                           /\ chain[i].status = StatusAt(i, k)
                    /\ dr.invoked = SubSeq(Refs(dr.steps), 1, k)

\* The second of three steps has failed.
C2_Witness ==
    \E d \in DOMAIN drains :
        /\ drains[d].state = "rejected"
        /\ Len(drains[d].steps) = 3
        /\ drains[d].pc = 2

\* C3: a fluent call made by the test appends exactly one step, for the
\* method called, at the end of the Session's queue, returns that Session,
\* and starts nothing: no drain and no action begins, no callback is called,
\* no scoped Session is made and no error is raised.
C3_CallOnlyQueues ==
    [][LET n == Len(issued'[Root])
           q == sessions[Root].steps
           q2 == sessions'[Root].steps
       IN  (n = Len(issued[Root]) + 1 /\ issued'[Root][n].by = "test") =>
               /\ Len(q2) = Len(q) + 1
               /\ SubSeq(q2, 1, Len(q)) = q
               /\ q2[Len(q2)].action.op = issued'[Root][n].m
               /\ q2[Len(q2)].action.self = Root
               /\ returned' = Root
               /\ drains' = drains
               /\ errors' = errors
               /\ Len(sessions') = Len(sessions)
      ]_vars

\* The test has chained a within call onto another call: both are pending,
\* nothing has run, and the callback of within has made no Session.
C3_Witness ==
    /\ Len(sessions[Root].steps) = 2
    /\ sessions[Root].steps[1].action.op \in Methods \ {"click", "within"}
    /\ sessions[Root].steps[2].action.op = "within"
    /\ sessions[Root].steps[2].action.fn = FnChain
    /\ returned = Root
    /\ drains = <<>>
    /\ Len(sessions) = 1

\* C4: a later drain of a Session runs only steps that were queued after the
\* earlier drain began: the two batches share no step, the later drain starts
\* actions of its own batch only, and every index of the later batch is
\* greater than every index of the earlier one.
C4_OnlyNewSteps ==
    \A d1, d2 \in DOMAIN drains :
        (d1 < d2 /\ drains[d1].session = drains[d2].session) =>
            LET a == drains[d1]
                b == drains[d2]
            IN  /\ Range(Refs(a.steps)) \cap Range(Refs(b.steps)) = {}
                /\ Range(b.invoked) \subseteq Range(Refs(b.steps))
                /\ \A j \in DOMAIN b.steps : b.steps[j].ref[2] >= a.seen
                /\ \A i \in DOMAIN a.steps : \A j \in DOMAIN b.steps :
                       a.steps[i].index < b.steps[j].index

\* The Session was drained to completion, new calls were queued, and a second
\* trigger has run them.
C4_Witness ==
    \E d1, d2 \in DOMAIN drains :
        /\ d1 < d2
        /\ drains[d1].session = Root
        /\ drains[d2].session = Root
        /\ drains[d1].state = "resolved"
        /\ drains[d1].steps # <<>>
        /\ drains[d2].state = "resolved"
        /\ drains[d2].steps # <<>>
        /\ drains[d2].steps[1].ref[2] >= drains[d1].seen

\* C5: a drain works on the steps that were pending when it was triggered and
\* on nothing else: its batch, the actions it starts and the lines of its
\* report are steps issued before the trigger, and a step issued later is
\* pending or in the batch of a later drain.  After a trigger the pending
\* queue holds only steps issued after it.
C5_SnapshotAtTrigger ==
    \A d \in DOMAIN drains :
        LET dr == drains[d]
            s == dr.session
        IN  /\ \A i \in DOMAIN dr.steps : dr.steps[i].ref[2] < dr.seen
            /\ Range(dr.invoked) \subseteq Range(Refs(dr.steps))
            /\ dr.state = "rejected" =>
                   Len(errors[dr.error].message.chain) = Len(dr.steps)
            /\ \A i \in DOMAIN sessions[s].steps :
                   sessions[s].steps[i].ref[2] >= dr.seen
            /\ \A k \in (dr.seen + 1)..Len(issued[s]) :
                   \/ <<s, k - 1>> \in Range(Refs(sessions[s].steps))
                   \/ \E d2 \in DOMAIN drains :
                          /\ d2 > d
                          /\ drains[d2].session = s
                          /\ <<s, k - 1>> \in Range(Refs(drains[d2].steps))

\* A drain of the root Session has failed.  While it ran, a within callback
\* queued a step on the root Session, which a later drain took, and the test
\* queued a step, which is still pending.
C5_Witness ==
    \E d \in DOMAIN drains :
        /\ drains[d].session = Root
        /\ drains[d].state = "rejected"
        /\ \E i \in DOMAIN sessions[Root].steps :
               /\ sessions[Root].steps[i].ref[2] >= drains[d].seen
               /\ issued[Root][sessions[Root].steps[i].ref[2] + 1].by = "test"
        /\ \E d2 \in DOMAIN drains :
               /\ d2 > d
               /\ drains[d2].session = Root
               /\ \E j \in DOMAIN drains[d2].steps :
                      issued[Root][drains[d2].steps[j].ref[2] + 1].by = "fn"

\* C6: a drain rejects exactly when an action of its batch fails, with one
\* StepError whose cause is the error that action threw, the same object;
\* no action is started twice.
C6_RejectsWithCause ==
    /\ \A d \in DOMAIN drains :
           LET dr == drains[d]
           IN  /\ dr.state = "rejected" =>
                      /\ dr.error \in DOMAIN errors
                      /\ errors[dr.error].type = "StepError"
                      /\ dr.thrown \in DOMAIN errors
                      /\ errors[dr.error].cause = dr.thrown
                      /\ errors[dr.error].message.cause = errors[dr.thrown].message
               /\ dr.state = "resolved" => dr.error = 0
               /\ \A i, j \in DOMAIN dr.invoked :
                      i # j => dr.invoked[i] # dr.invoked[j]
               /\ (dr.child # 0 /\ dr.await # "nested"
                       /\ drains[dr.child].state = "rejected") =>
                      dr.state = "rejected"
    /\ \A e \in DOMAIN errors :
           /\ errors[e].type = "Error" =>
                  \E d \in DOMAIN drains :
                      drains[d].state = "rejected" /\ drains[d].thrown = e
           /\ errors[e].type = "StepError" =>
                  Cardinality({d \in DOMAIN drains : drains[d].error = e}) = 1

\* The second step of a chain has failed with a driver error.
C6_Witness ==
    \E d \in DOMAIN drains :
        /\ drains[d].state = "rejected"
        /\ drains[d].pc = 2
        /\ errors[drains[d].thrown].type = "Error"
        /\ Len(drains[d].invoked) = 2

\* C7: the header "Step P of T failed" of every report gives the number T
\* of steps of the drained batch and the position P, counted from one, of
\* the failed step in that batch, so that 1 <= P <= T.
C7_PositionWithinBatch ==
    \A d \in DOMAIN drains :
        drains[d].state = "rejected" =>
            LET msg == errors[drains[d].error].message
            IN  /\ msg.total = Len(drains[d].steps)
                /\ msg.position = drains[d].pc
                /\ 1 <= msg.position
                /\ msg.position <= msg.total

C9_CauseIsOriginalError ==
    \A d \in DOMAIN drains :
        LET dr == drains[d]
        IN  (dr.state = "rejected" /\ errors[dr.thrown].type = "StepError") =>
                errors[dr.error].cause = errors[dr.thrown].cause

\* C9, amended: when the drain a within step awaits fails, the within step
\* fails, and the cause of its StepError is the nested StepError itself, whose
\* own cause is the error the nested step threw; the nested report is the
\* cause text of the outer one.
C9_CauseIsNestedStepError ==
    \A d \in DOMAIN drains :
        LET dr == drains[d]
        IN  (dr.child # 0 /\ dr.await # "nested"
                 /\ drains[dr.child].state = "rejected") =>
                LET inner == drains[dr.child]
                IN  /\ dr.state = "rejected"
                    /\ dr.steps[dr.pc].action.op = "within"
                    /\ errors[dr.error].cause = inner.error
                    /\ errors[inner.error].type = "StepError"
                    /\ errors[inner.error].cause = inner.thrown
                    /\ errors[dr.error].message.cause = errors[inner.error].message
                    /\ errors[dr.error].cause # inner.thrown

\* The chain a callback built on the scoped Session has failed, and the
\* within step has failed with it.
C9_Witness ==
    \E d \in DOMAIN drains :
        LET dr == drains[d]
        IN  /\ dr.state = "rejected"
            /\ dr.child # 0
            /\ drains[dr.child].state = "rejected"
            /\ drains[dr.child].session # dr.session
            /\ errors[drains[dr.child].thrown].type = "Error"

\* C10 as stated: at no instant are two deferred actions of one Session in
\* flight.  A running drain has exactly one action in flight.
C10_OneActionPerSession ==
    \A d1, d2 \in DOMAIN drains :
        (/\ drains[d1].session = drains[d2].session
         /\ drains[d1].state = "running"
         /\ drains[d2].state = "running") => d1 = d2

\* C10, amended: the deferred actions of one drain execute one at a time, in
\* batch order: the actions the drain has started are a prefix of its batch,
\* all of them but the last have settled, and the last is in flight exactly
\* while the drain runs.
C10_OneActionPerDrain ==
    \A d \in DOMAIN drains :
        LET dr == drains[d]
            n == Len(dr.invoked)
        IN  /\ n <= Len(dr.steps)
            /\ dr.invoked = SubSeq(Refs(dr.steps), 1, n)
            /\ dr.state = "running" =>
                   n >= 1 /\ dr.settled = SubSeq(dr.invoked, 1, n - 1)
            /\ dr.state # "running" => dr.settled = dr.invoked

\* Two drains of the root Session, the second triggered by the test while
\* the first was running, each have an action in flight.
C10_Witness ==
    \E d1, d2 \in DOMAIN drains :
        /\ d1 < d2
        /\ drains[d1].session = Root
        /\ drains[d2].session = Root
        /\ drains[d1].state = "running"
        /\ drains[d2].state = "running"
        /\ drains[d1].child = 0
        /\ drains[d1].await = "op"
        /\ drains[d2].await = "op"

\* The operation of step i of drain dr.
OpAt(dr, i) == dr.steps[i].action.op

\* C11: on the RTL back end no step of visit, assertPath, refutePath,
\* assertHas or refuteHas ever resolves: whenever its action has settled, its
\* drain has rejected at that step with a driver Error as cause, and the
\* cause depends on the operation alone, not on the arguments, the page or
\* what ran before.  No error exists before the first trigger: the fluent
\* calls themselves raise nothing.
C11_UnsupportedAlwaysFails ==
    /\ triggers = 0 => errors = <<>>
    /\ \A d \in DOMAIN drains :
           LET dr == drains[d]
           IN  \A i \in DOMAIN dr.settled :
                   OpAt(dr, i) \in Unsupported =>
                       /\ dr.state = "rejected"
                       /\ dr.pc = i
                       /\ errors[dr.thrown].type = "Error"
                       /\ errors[dr.error].cause = dr.thrown
                       /\ errors[dr.error].message.cause =
                              errors[dr.thrown].message
    /\ \A d1, d2 \in DOMAIN drains :
           LET a == drains[d1]
               b == drains[d2]
           IN  (/\ a.state = "rejected"
                /\ b.state = "rejected"
                /\ OpAt(a, a.pc) \in Unsupported
                /\ OpAt(b, b.pc) \in Unsupported) =>
                   (OpAt(a, a.pc) = OpAt(b, b.pc)
                       <=> errors[a.thrown].message = errors[b.thrown].message)

\* assertHas has been awaited twice, with different arguments, and has
\* failed both times with the same cause.
C11_Witness ==
    \E d1, d2 \in DOMAIN drains :
        LET a == drains[d1]
            b == drains[d2]
        IN  /\ d1 < d2
            /\ a.state = "rejected"
            /\ b.state = "rejected"
            /\ OpAt(a, a.pc) = "assertHas"
            /\ OpAt(b, b.pc) = "assertHas"
            /\ a.steps[a.pc].action.args # b.steps[b.pc].action.args
            /\ errors[a.thrown] = errors[b.thrown]

\* The operations that record the form of the control they act on.
FormOps == {"fillIn", "selectOption", "check", "uncheck", "choose"}

\* The error is the precondition failure of submit.
IsNoFormCause(e) ==
    /\ e.type = "Error"
    /\ e.message.text[1] =
           "submit() called but no form was previously interacted with."

IsFillInSubmit(dr) ==
    /\ dr.session = Root
    /\ dr.seen = 2
    /\ Len(dr.steps) = 2
    /\ OpAt(dr, 1) = "fillIn"
    /\ OpAt(dr, 2) = "submit"

\* C13 as stated: in the chain fillIn(label, x).submit() of a fresh Session,
\* when fillIn has filled an input, submit does not fail with the cause "no
\* form was previously interacted with".
C13_NoPreconditionFailure ==
    \A d \in DOMAIN drains :
        LET dr == drains[d]
        IN  (IsFillInSubmit(dr) /\ Len(dr.settled) = 2) =>
                ~(dr.state = "rejected" /\ IsNoFormCause(errors[dr.thrown]))

\* C13, amended: in the chain fillIn(label, x).submit() of a fresh Session,
\* when fillIn has filled an input that lies in a form, submit succeeds and
\* submits that form.  When the input lies in no form, submit fails: on the
\* RTL back end with the cause "no form was previously interacted with"
\* (the closest form is null), on the Playwright back end with another
\* cause.  When fillIn resolves no element, submit is not run.
C13_PreconditionFailureIffNoForm ==
    \A d \in DOMAIN drains :
        LET dr == drains[d]
            form == page.fields[dr.steps[1].action.args[1]].form
            failed == dr.state = "rejected" /\ dr.pc = 2
        IN  IsFillInSubmit(dr) =>
                /\ (dr.state = "rejected" /\ dr.pc = 1) =>
                       /\ ~IsNoFormCause(errors[dr.thrown])
                       /\ Len(dr.invoked) = 1
                /\ Len(dr.settled) = 2 =>
                       IF form # 0
                       THEN /\ dr.state = "resolved"
                            /\ Len(page.submitted) = 1
                            /\ page.submitted[1].form = form
                       ELSE /\ failed
                            /\ page.submitted = <<>>
                            /\ IsNoFormCause(errors[dr.thrown])
                                   <=> sessions[Root].driver.kind = "rtl"

\* On the RTL back end fillIn has filled an input that lies in no form, and
\* submit has failed with the precondition cause.
C13_Witness ==
    \E d \in DOMAIN drains :
        LET dr == drains[d]
        IN  /\ IsFillInSubmit(dr)
            /\ dr.state = "rejected"
            /\ dr.pc = 2
            /\ page.fields["l"].value = "v"
            /\ page.fields["l"].form = 0
            /\ IsNoFormCause(errors[dr.thrown])

\* The number of steps of the drain whose action has resolved.
Completed(dr) ==
    IF dr.state = "rejected" THEN dr.pc - 1 ELSE Len(dr.settled)

\* C14: whatever the state of the checkbox was, once a check step has
\* resolved the checkbox is checked, also when the step before it was a
\* check as well; once an uncheck step has resolved it is unchecked.  (The
\* steps of the one drain are the only operations on the page, so the page
\* shows the effect of the last step that resolved.)
C14_CheckIsIdempotent ==
    \A d \in DOMAIN drains :
        LET dr == drains[d]
            n == Completed(dr)
        IN  n >= 1 =>
                LET box == page.fields[dr.steps[n].action.args[1]]
                IN  /\ OpAt(dr, n) = "check" => box.checked
                    /\ OpAt(dr, n) = "uncheck" => ~box.checked

\* uncheck, check, check have resolved in this order: the second check found
\* the box checked, and it is still checked.
C14_Witness ==
    \E d \in DOMAIN drains :
        LET dr == drains[d]
        IN  /\ dr.state = "resolved"
            /\ Len(dr.steps) = 3
            /\ OpAt(dr, 1) = "uncheck"
            /\ OpAt(dr, 2) = "check"
            /\ OpAt(dr, 3) = "check"
            /\ page.fields["t"].checked

\* The action of step i of the drain has settled, and it resolved.
StepResolved(dr, i) ==
    /\ i \in DOMAIN dr.settled
    /\ ~(dr.state = "rejected" /\ dr.pc = i)

\* The assertPath steps that have settled, by whether queryParams was given.
PathSteps(dr, withQuery) ==
    {i \in DOMAIN dr.settled :
        /\ OpAt(dr, i) = "assertPath"
        /\ dr.steps[i].action.args[2].queryParams.some = withQuery}

\* C15: assertPath(path, {queryParams: Q}) succeeds if and only if the path
\* of the location is path and the set of key/value pairs of its query is
\* the set of pairs of Q, in whatever order the URL lists them.
C15_QueryMatchIsUnordered ==
    \A d \in DOMAIN drains :
        LET dr == drains[d]
        IN  \A i \in PathSteps(dr, TRUE) :
                LET path == dr.steps[i].action.args[1]
                    Q == dr.steps[i].action.args[2].queryParams.pairs
                IN  StepResolved(dr, i) <=>
                        /\ page.location.path = path
                        /\ Range(page.location.query) = Range(Q)

\* C16 as stated: assertPath(path) without queryParams succeeds exactly when
\* path is a prefix of the path of the location.
C16_PathPrefixMatch ==
    \A d \in DOMAIN drains :
        LET dr == drains[d]
        IN  \A i \in PathSteps(dr, FALSE) :
                StepResolved(dr, i) <=>
                    IsPrefix(dr.steps[i].action.args[1], page.location.path)

\* Text t ends with text s.
EndsWith(t, s) ==
    Len(s) <= Len(t) /\ SubSeq(t, Len(t) - Len(s) + 1, Len(t)) = s

\* C16, amended: assertPath(path) without queryParams succeeds exactly when
\* the URL of the location up to its query string (origin and path) ends
\* with path: a suffix match, which ignores the query and what precedes path.
C16_PathSuffixMatch ==
    \A d \in DOMAIN drains :
        LET dr == drains[d]
        IN  \A i \in PathSteps(dr, FALSE) :
                StepResolved(dr, i) <=>
                    EndsWith(<<Origin>> \o page.location.path,
                             dr.steps[i].action.args[1])

\* At the location "/a/b?..." assertPath("/b") has succeeded.
C16_Witness ==
    /\ page.location.path = <<"a", "b">>
    /\ page.location.query # <<>>
    /\ \E d \in DOMAIN drains :
           \E i \in PathSteps(drains[d], FALSE) :
               /\ drains[d].steps[i].action.args[1] = <<"b">>
               /\ StepResolved(drains[d], i)

\* C17: at every location and for every path, exactly one of assertPath(path)
\* and refutePath(path) succeeds.
C17_RefuteNegatesAssert ==
    \A d1, d2 \in DOMAIN drains :
        LET a == drains[d1]
            b == drains[d2]
        IN  \A i \in PathSteps(a, FALSE) :
                \A j \in DOMAIN b.settled :
                    (/\ OpAt(b, j) = "refutePath"
                     /\ b.steps[j].action.args[1] = a.steps[i].action.args[1])
                        => (StepResolved(a, i) <=> ~StepResolved(b, j))

\* C18: in every state, for every Session: no pending step is in the batch
\* of a drain (none has been executed), the indices of the pending steps
\* strictly increase in queue order, and stepIndex is greater than the index
\* of every step the Session has ever created, pending or drained.
C18_QueueInvariant ==
    \A s \in DOMAIN sessions :
        LET q == sessions[s].steps
        IN  /\ \A d \in DOMAIN drains :
                   /\ Range(Refs(q)) \cap Range(Refs(drains[d].steps)) = {}
                   /\ Range(Refs(q)) \cap Range(drains[d].invoked) = {}
                   /\ drains[d].session = s =>
                          \A j \in DOMAIN drains[d].steps :
                              drains[d].steps[j].index < sessions[s].stepIndex
            /\ \A i, j \in DOMAIN q : i < j => q[i].index < q[j].index
            /\ \A i \in DOMAIN q : q[i].index < sessions[s].stepIndex
            /\ sessions[s].stepIndex = Len(issued[s])

\* Two drains of the root Session have started actions, and two steps that
\* neither of them took are pending.
C18_Witness ==
    /\ Len(sessions[Root].steps) >= 2
    /\ \E d1, d2 \in DOMAIN drains :
           /\ d1 < d2
           /\ drains[d1].session = Root
           /\ drains[d2].session = Root
           /\ drains[d1].invoked # <<>>
           /\ drains[d2].invoked # <<>>

\* C19: the chain listing of a report has one line for every step of the
\* drained batch, in batch order; exactly one line has the status [FAILED],
\* the line of the step that failed, and the marker ">>> " is on that line
\* and on no other.
C19_OneMarkedFailedLine ==
    \A d \in DOMAIN drains :
        LET dr == drains[d]
        IN  dr.state = "rejected" =>
                LET chain == errors[dr.error].message.chain
                IN  /\ Len(chain) = Len(dr.steps)
                    /\ \A i \in DOMAIN chain :
                           /\ chain[i].name = dr.steps[i].name
                           /\ chain[i].status = "[FAILED]" <=> i = dr.pc
                           /\ chain[i].prefix = ">>> " <=> i = dr.pc
                           /\ chain[i].prefix \in {">>> ", "    "}
                    /\ Cardinality({i \in DOMAIN chain :
                                        chain[i].status = "[FAILED]"}) = 1

\* The first of three steps has failed: the report has a marked [FAILED]
\* line and two unmarked lines after it.
C19_Witness ==
    \E d \in DOMAIN drains :
        /\ drains[d].state = "rejected"
        /\ Len(drains[d].steps) = 3
        /\ drains[d].pc = 1
        /\ errors[drains[d].error].message.chain[1].prefix = ">>> "
        /\ errors[drains[d].error].message.chain[3].prefix = "    "

\* C20: every Session has a queue and an index of its own.  A Session made
\* by a within step holds, when its callback returns, exactly the steps the
\* callback queued on it, with the indices 0, 1, ...; the steps of a
\* Session's queue, of its drains' batches and of their reports were queued
\* on that Session; and a step of the program changes the pending queue or
\* the next index of at most one Session that existed before, one on which a
\* call was made or which was triggered in that step.
C20_SessionsAreIsolated ==
    [][/\ \A s \in DOMAIN sessions' :
              /\ \A i \in DOMAIN sessions'[s].steps :
                     sessions'[s].steps[i].ref[1] = s
              /\ s > Len(sessions) =>
                     /\ sessions'[s].stepIndex = Len(issued'[s])
                     /\ Len(sessions'[s].steps) = Len(issued'[s])
                     /\ \A i \in DOMAIN sessions'[s].steps :
                            /\ sessions'[s].steps[i].index = i - 1
                            /\ sessions'[s].steps[i].action.op = issued'[s][i].m
       /\ \A d \in DOMAIN drains' :
              /\ \A i \in DOMAIN drains'[d].steps :
                     drains'[d].steps[i].ref[1] = drains'[d].session
              /\ drains'[d].state = "rejected" =>
                     \A i \in DOMAIN drains'[d].steps :
                         errors'[drains'[d].error].message.chain[i].name =
                             drains'[d].steps[i].name
       /\ LET changed == {s \in DOMAIN sessions :
                              \/ sessions'[s].steps # sessions[s].steps
                              \/ sessions'[s].stepIndex # sessions[s].stepIndex}
          IN  /\ Cardinality(changed) <= 1
              /\ \A s \in changed :
                     \/ /\ Len(issued'[s]) > Len(issued[s])
                        /\ Len(sessions'[s].steps) - Len(sessions[s].steps) =
                               Len(issued'[s]) - Len(issued[s])
                     \/ /\ Len(drains') = Len(drains) + 1
                        /\ drains'[Len(drains')].session = s
                        /\ sessions'[s].steps = <<>>
                        /\ sessions'[s].stepIndex = sessions[s].stepIndex
      ]_vars

\* A within callback has built a chain on its scoped Session, which has
\* been drained, while the enclosing Session holds a pending step of its
\* own with a greater index.
C20_Witness ==
    \E d \in DOMAIN drains :
        /\ drains[d].session # Root
        /\ drains[d].steps # <<>>
        /\ drains[d].steps[1].index = 0
        /\ sessions[Root].steps # <<>>
        /\ sessions[Root].steps[1].index > 0
        /\ sessions[drains[d].session].steps = <<>>

\* The step of the program is the settling of a driver operation of drain
\* d, of one of the operations in ops.
OpStep(d, ops) ==
    /\ d \in DOMAIN drains
    /\ drains[d].state = "running"
    /\ drains[d].await = "op"
    /\ OpAt(drains[d], drains[d].pc) \in ops
    /\ drains'[d] # drains[d]

\* C21: the form a driver has recorded is changed only by its operations
\* fillIn, selectOption, check, uncheck and choose, and it is never cleared:
\* once a driver has recorded a form, it has one recorded ever after.
C21_SlotNeverCleared ==
    [][\A s \in DOMAIN sessions :
           LET slot == sessions[s].driver.lastForm
               slot2 == sessions'[s].driver.lastForm
           IN  /\ slot # slot2 =>
                      \E d \in DOMAIN drains :
                          /\ OpStep(d, FormOps)
                          /\ drains[d].steps[drains[d].pc].action.self = s
               /\ slot.some => slot2.some
      ]_vars

\* C28: a form operation (fillIn, selectOption, check, uncheck, choose) that
\* fails leaves the form its driver has recorded as it was; a form operation
\* that resolves records the form of the control it acted on.
C28_FailureKeepsSlot ==
    [][\A d \in DOMAIN drains :
           OpStep(d, FormOps) =>
               LET act == drains[d].steps[drains[d].pc].action
                   slot == sessions[act.self].driver.lastForm
                   slot2 == sessions'[act.self].driver.lastForm
               IN  IF drains'[d].state = "rejected"
                   THEN slot2 = slot
                   ELSE slot2 \in {Closest(page, act.args[1]),
                                   FormLocator(act.args[1])}
      ]_vars

\* fillIn has recorded a form, the check after it has failed, and the driver
\* still has the form of fillIn recorded.
C28_Witness ==
    \E d \in DOMAIN drains :
        LET dr == drains[d]
        IN  /\ dr.state = "rejected"
            /\ dr.pc = 2
            /\ OpAt(dr, 1) = "fillIn"
            /\ OpAt(dr, 2) = "check"
            /\ sessions[dr.session].driver.lastForm.some
            /\ sessions[dr.session].driver.lastForm
                   \in {Closest(page, "l"), FormLocator("l")}

\* The steps of a drain that failed which come after the failed step.
Skipped(dr) ==
    IF dr.state = "rejected"
    THEN {dr.steps[i].ref : i \in (dr.pc + 1)..Len(dr.steps)}
    ELSE {}

\* C26: the steps a failed drain has skipped are discarded: they are not
\* pending, no drain ever starts their actions, and no later drain has them
\* in its batch.  A later trigger of the Session without new calls resolves
\* and starts no action; with new calls its batch is those calls only.
C26_SkippedAreDiscarded ==
    \A d1 \in DOMAIN drains :
        LET a == drains[d1]
            s == a.session
        IN  /\ \A d \in DOMAIN drains :
                   d # d1 => Skipped(a) \cap Range(Refs(drains[d].steps)) = {}
            /\ \A d \in DOMAIN drains :
                   Skipped(a) \cap Range(drains[d].invoked) = {}
            /\ Skipped(a) \cap Range(Refs(sessions[s].steps)) = {}
            /\ \A d2 \in DOMAIN drains :
                   (d1 < d2 /\ drains[d2].session = s
                        /\ a.state = "rejected") =>
                       LET b == drains[d2]
                           new == {<<s, k>> : k \in a.seen..(b.seen - 1)}
                       IN  /\ Range(Refs(b.steps)) \subseteq new
                           /\ Range(b.invoked) \subseteq new
                           /\ b.seen = a.seen =>
                                  /\ b.state = "resolved"
                                  /\ b.invoked = <<>>

\* The first of two steps has failed, the second was skipped; the Session
\* was awaited again without a new call, and that drain has resolved with
\* nothing to run.
C26_Witness ==
    \E d1, d2 \in DOMAIN drains :
        /\ d1 < d2
        /\ drains[d1].session = Root
        /\ drains[d2].session = Root
        /\ drains[d1].state = "rejected"
        /\ drains[d1].pc = 1
        /\ Len(drains[d1].steps) = 2
        /\ drains[d2].seen = drains[d1].seen
        /\ drains[d2].state = "resolved"
        /\ drains[d2].steps = <<>>

\* C27: whatever triggers are made, overlapping ones included, the action of
\* every step is started at most once in total: no step occurs twice among
\* the actions that all the drains have started, and every action started is
\* that of a step that was queued.
C27_AtMostOnceInTotal ==
    \A d1, d2 \in DOMAIN drains :
        \A i \in DOMAIN drains[d1].invoked :
            /\ drains[d1].invoked[i][1] = drains[d1].session
            /\ drains[d1].invoked[i][2] < Len(issued[drains[d1].session])
            /\ \A j \in DOMAIN drains[d2].invoked :
                   drains[d1].invoked[i] = drains[d2].invoked[j] =>
                       d1 = d2 /\ i = j

\* Two triggers of the root Session overlap: the later drain has run its
\* step to the end while the step of the earlier one is still in flight.
C27_Witness ==
    \E d1, d2 \in DOMAIN drains :
        /\ d1 < d2
        /\ drains[d1].session = Root
        /\ drains[d2].session = Root
        /\ drains[d1].state = "running"
        /\ Len(drains[d1].invoked) = 1
        /\ drains[d2].state = "resolved"
        /\ Len(drains[d2].invoked) = 1

\* C30: the callback of a within step is called at most once each time the
\* step executes, and only by the executing step after its selector has
\* resolved: never when within is called (scoped Sessions exist only for
\* callbacks that steps have run), never for a selector that matched
\* nothing, never for a step after a failed one.  The Session the callback
\* returned is drained, to the end, before the drain starts its next step.
C30_CallbackRunsInStep ==
    /\ \A d \in DOMAIN drains :
           LET dr == drains[d]
           IN  /\ \A i, j \in DOMAIN dr.ran : i # j => dr.ran[i] # dr.ran[j]
               /\ \A i \in DOMAIN dr.ran :
                      /\ dr.ran[i] \in Range(dr.invoked)
                      /\ dr.ran[i] \notin Range(dr.missing)
                      /\ \E k \in 1..dr.pc :
                             /\ k <= Len(dr.steps)
                             /\ dr.steps[k].ref = dr.ran[i]
                             /\ OpAt(dr, k) = "within"
               /\ \A k \in 1..Len(dr.settled) :
                      (OpAt(dr, k) = "within" /\ StepResolved(dr, k)) =>
                          dr.steps[k].ref \in Range(dr.ran)
               /\ (dr.ran # <<>> /\ dr.await # "thenable") =>
                      /\ dr.child \in DOMAIN drains
                      /\ dr.child > d
                      /\ drains[dr.child].session = dr.target
                      /\ dr.await # "nested" =>
                             drains[dr.child].state # "running"
    /\ Len(sessions) =
           1 + Cardinality({<<d, i>> \in (DOMAIN drains) \X (1..MaxCalls) :
                                i <= Len(drains[d].ran)})

\* The callback of a within step has run and the chain it built on the
\* scoped Session has been drained to the end; the drain has then started
\* the step after the within step, which is in flight.
C30_Witness ==
    \E d \in DOMAIN drains :
        LET dr == drains[d]
        IN  /\ dr.state = "running"
            /\ dr.pc = 2
            /\ OpAt(dr, 1) = "within"
            /\ dr.await = "op"
            /\ dr.ran = <<dr.steps[1].ref>>
            /\ dr.child # 0
            /\ drains[dr.child].state = "resolved"
            /\ drains[dr.child].steps # <<>>
            /\ drains[dr.child].session # dr.session

\* C25: when every operation of the back end settles, every drain that was
\* triggered settles in the end, resolved or rejected: the drains of the
\* test's triggers, and the drains that within steps await, of the scoped
\* Session or of the enclosing one.
C25_EveryTriggerSettles ==
    \A d \in DrainIds :
        (d \in DOMAIN drains) ~>
            (d \in DOMAIN drains /\ drains[d].state \in {"resolved", "rejected"})

\* The callback of a within step has returned the enclosing Session; the
\* drain of it that the step awaited has settled, and so has the drain of
\* the step.
C25_Witness ==
    \E d \in DOMAIN drains :
        LET dr == drains[d]
        IN  /\ dr.state = "resolved"
            /\ dr.steps # <<>>
            /\ OpAt(dr, 1) = "within"
            /\ dr.steps[1].action.fn = FnOuter
            /\ dr.child # 0
            /\ drains[dr.child].session = dr.session
            /\ drains[dr.child].steps # <<>>
            /\ drains[dr.child].state = "resolved"

\* C22: a submit step that acts on a form activates a control of type
\* submit of that form when the form holds one, and only when it holds none
\* falls back to Enter (Playwright) or requestSubmit() (RTL); a control that
\* is not of type submit is never activated.
C22_SubmitTypedControlFirst ==
    /\ \A i \in DOMAIN page.submitted :
           LET e == page.submitted[i]
           IN  IF page.forms[e.form].button
               THEN e.via = "click"
               ELSE e.via = IF sessions[Root].driver.kind = "rtl"
                            THEN "requestSubmit" ELSE "Enter"
    /\ \A d \in DOMAIN drains :
           LET dr == drains[d]
           IN  \A i \in DOMAIN dr.settled :
                   (OpAt(dr, i) = "submit"
                       /\ \E j \in 1..(i - 1) : OpAt(dr, j) = "fillIn") =>
                       StepResolved(dr, i)

\* C24: debug is a step like any other.  When its driver operation fails,
\* the drain rejects at that step with a StepError that names debug() as the
\* failed step and lists the steps after it as skipped, and no later action
\* is started.  When it resolves, the queue and the recorded form of every
\* Session and the page are as before, and the drain goes on with the next
\* step, or resolves after the last one.
C24_DebugIsAStep ==
    [][\A d \in DOMAIN drains :
           OpStep(d, {"debug"}) =>
               LET dr == drains[d]
                   dr2 == drains'[d]
                   k == dr.pc
               IN  /\ sessions' = sessions
                   /\ page' = page
                   /\ IF dr2.state = "rejected"
                      THEN LET msg == errors'[dr2.error].message
                           IN  /\ errors'[dr2.error].type = "StepError"
                               /\ msg.failedAt = <<"debug">>
                               /\ msg.chain[k].status = "[FAILED]"
                               /\ \A i \in (k + 1)..Len(dr.steps) :
                                      msg.chain[i].status = "[skipped]"
                               /\ dr2.pc = k
                               /\ dr2.invoked = dr.invoked
                      ELSE /\ dr2.pc = k + 1
                           /\ errors' = errors
                           /\ IF k < Len(dr.steps)
                              THEN /\ dr2.state = "running"
                                   /\ dr2.invoked =
                                          Append(dr.invoked, dr.steps[k + 1].ref)
                              ELSE /\ dr2.state = "resolved"
                                   /\ dr2.invoked = dr.invoked
      ]_vars

\* fillIn, debug and submit have resolved in this order, and submit has
\* submitted the form that fillIn recorded before debug ran.
C24_Witness ==
    \E d \in DOMAIN drains :
        LET dr == drains[d]
        IN  /\ dr.state = "resolved"
            /\ Len(dr.steps) = 3
            /\ OpAt(dr, 1) = "fillIn"
            /\ OpAt(dr, 2) = "debug"
            /\ OpAt(dr, 3) = "submit"
            /\ Len(page.submitted) = 1
            /\ page.submitted[1].form = page.fields["l"].form

\* C23: a within step resolves its selector against the scope of the driver
\* of the Session it was called on: the step resolves exactly when the
\* selector names an element inside that scope, so a within step nested in
\* another one fails when the selector names only an element outside the
\* enclosing one.
C23_SelectorResolvedInScope ==
    \A d \in DOMAIN drains :
        LET dr == drains[d]
        IN  \A i \in DOMAIN dr.steps :
                OpAt(dr, i) = "within" =>
                    LET inScope ==
                            Matches(sessions[dr.steps[i].action.self].driver.scope,
                                    page, dr.steps[i].action.args[1])
                    IN  /\ dr.steps[i].ref \in Range(dr.ran) => inScope
                        /\ (i \in DOMAIN dr.settled
                               /\ dr.steps[i].ref \notin Range(dr.ran)) =>
                               ~inScope

\* What C29 says of every step of the program.
C29_Step ==
    /\ \A s \in DOMAIN sessions :
           sessions'[s].driver.lastForm # sessions[s].driver.lastForm =>
               \E d \in DOMAIN drains :
                   /\ OpStep(d, FormOps)
                   /\ drains[d].steps[drains[d].pc].action.self = s
    /\ \A s \in DOMAIN sessions' :
           s \notin DOMAIN sessions => sessions'[s].driver.lastForm = NoForm

\* What C29 says of every state of the program.
C29_State ==
    \A d \in DOMAIN drains :
        LET dr == drains[d]
        IN  \A i \in DOMAIN dr.settled :
                OpAt(dr, i) = "submit" =>
                    LET prior == {j \in 1..(i - 1) : OpAt(dr, j) \in FormOps}
                        failed == dr.state = "rejected" /\ dr.pc = i
                    IN  IF prior = {}
                        THEN failed /\ IsNoFormCause(errors[dr.thrown])
                        ELSE ~failed

\* C29: the recorded form belongs to one driver.  A form operation changes
\* the recorded form of the driver of its own Session only, and the driver
\* that within makes has no form recorded, whatever the enclosing one has.
\* So a submit step fails with the cause "no form was previously interacted
\* with" exactly when no form operation ran before it on its own Session:
\* after a within step whose callback filled a form, and inside a within
\* step after the enclosing Session filled one.
C29_SlotPerDriver == []C29_State /\ [][C29_Step]_vars

\* The callback of a within step has filled an input that lies in a form,
\* on the scoped Session, whose driver has recorded the form; the submit
\* step that followed on the enclosing Session has failed with the cause "no
\* form was previously interacted with".
C29_Witness ==
    \E d \in DOMAIN drains :
        LET dr == drains[d]
        IN  /\ dr.session = Root
            /\ dr.state = "rejected"
            /\ dr.pc = 2
            /\ OpAt(dr, 1) = "within"
            /\ dr.steps[1].action.fn = FnFill
            /\ OpAt(dr, 2) = "submit"
            /\ IsNoFormCause(errors[dr.thrown])
            /\ page.fields["l"].value = "v"
            /\ Len(sessions) = 2
            /\ sessions[2].driver.lastForm.some
            /\ ~sessions[Root].driver.lastForm.some

====
